---- MODULE Spec2Model ----
(***************************************************************************)
(* The session acquisition / auto-login logic and the tool dispatch layer  *)
(* of sap_gui_mcp (src/src/server.py, src/src/sap/logon_pad.py), as a      *)
(* state machine.  One invocation runs at a time; pc is its position.      *)
(* Every call into the external COM object model is a step whose outcome   *)
(* (returns, returns a falsy value, raises) is chosen nondeterministically.*)
(* Time is counted in quarter seconds.                                     *)
(***************************************************************************)
EXTENDS Integers, Sequences, FiniteSets, TLC

(***************************************************************************)
(* Values.  Python's None, the empty string and an omitted argument are    *)
(* three different inputs; "not x" is true of None and of "".              *)
(***************************************************************************)
None == "<None>"
Empty == ""
Omitted == "<omitted>"
Session == "<session>"

CredFields == <<"system", "client", "user", "password">>
Fields == {"system", "client", "user", "password", "language"}

\* The value a caller passes for each field, and the value the environment holds.
ExplicitVal == [system |-> "PRD", client |-> "100", user |-> "alice",
                password |-> "secret", language |-> "DE"]
EnvVal == [system |-> "DEV", client |-> "200", user |-> "bob",
           password |-> "hunter2", language |-> "FR"]

Truthy(x) == x # None /\ x # Empty

\* os.getenv(key): None when the variable is unset.
Getenv(e, f) == e[f]
\* os.getenv(key, default)
GetenvDefault(e, f, d) == IF e[f] = None THEN d ELSE e[f]

(***************************************************************************)
(* Time, in quarter seconds.                                               *)
(***************************************************************************)
POLLING_INTERVAL == 2
WAIT_TIME == 12
SERVER_POLL == 2
SERVER_MAX_WAIT == 120
\* Largest max_wait_time a direct caller of create_sap_session passes.
MaxWaitTime == 5

(***************************************************************************)
(* Login screen fields.                                                    *)
(***************************************************************************)
FieldId == [client |-> "wnd[0]/usr/txtRSYST-MANDT",
            user |-> "wnd[0]/usr/txtRSYST-BNAME",
            password |-> "wnd[0]/usr/pwdRSYST-BCODE",
            language |-> "wnd[0]/usr/txtRSYST-LANGU"]

\* The fields the credential path writes, in the order of the code.
CredentialWritesSwapped == <<"client", "password", "user", "language">>
CredentialWrites == <<"client", "user", "password", "language">>

\* The fields the SSO path writes: the client field, when a client is given.
SsoWritesWithUser(c) == IF Truthy(c.client) THEN <<"client", "user">> ELSE <<>>
SsoWrites(c) == IF Truthy(c.client) THEN <<"client">> ELSE <<>>

LoginWrites(s, c) == IF s THEN SsoWrites(c) ELSE CredentialWrites

(***************************************************************************)
(* Messages: sequences of strings, the text pieces of the f-string.        *)
(***************************************************************************)
MsgNotRunning == <<"SAP GUI is not running. Please start SAP GUI first.">>
MsgNoEngine == <<"Failed to get SAP Scripting Engine.">>
MsgNoConnection(sys) == <<"Failed to open connection to system: ", sys>>
MsgNoSession == <<"Connection established but no session created.">>
MsgStillOnLogin == <<"Login failed - still on login screen.">>
MsgLoginError == <<"Error during login process: ", "<exc>">>
MsgCreateFailed == <<"Failed to create SAP session: ", "<exc>">>
NoMsg == <<>>

LoginLabel == [system |-> "system (SAP_SYSTEM)", client |-> "client (SAP_CLIENT)",
               user |-> "user (SAP_USER)", password |-> "password (SAP_PASSWORD)"]
EnvLabel == [system |-> "SAP_SYSTEM", client |-> "SAP_CLIENT",
             user |-> "SAP_USER", password |-> "SAP_PASSWORD"]

\* The required fields whose value is None or empty, in the order the code tests them.
MissingNoneOnly(c) == SelectSeq(CredFields, LAMBDA f : c[f] = None)
Missing(c) == SelectSeq(CredFields, LAMBDA f : ~Truthy(c[f]))

Labels(fs, lab) == [i \in 1..Len(fs) |-> lab[fs[i]]]

MsgLoginMissing(c) ==
    <<"Login failed: Missing required parameters: ">> \o Labels(Missing(c), LoginLabel)
MsgEnvMissing(c) ==
    <<"Auto-login failed: Missing required environment variables: ">>
        \o Labels(Missing(c), EnvLabel)

\* What login_to_sap returns when create_sap_session returned None.
MsgLoginFailed(sys) ==
    <<"Failed to create SAP session for system ", sys,
      ". Check credentials and SAP GUI status.">>
MsgLoginInfo == <<"{Success: true, SessionId, User, Client, Language, SystemName, SystemNumber}">>
MsgLoginNoInfo(u) == <<"Session created successfully for user ", u>>

(***************************************************************************)
(* login_to_sap: parameter binding and credential resolution.              *)
(***************************************************************************)
\* The parameters after the signature's defaults: language defaults to "EN".
LoginParams(g) ==
    [f \in Fields |->
        IF g[f] = Omitted THEN (IF f = "language" THEN "EN" ELSE None) ELSE g[f]]

\* server.py 259-263: the argument unless it is None, else the environment.
LoginResolve(p, e) ==
    [f \in Fields |->
        IF p[f] # None THEN p[f]
        ELSE IF f = "language" THEN GetenvDefault(e, f, "EN") ELSE Getenv(e, f)]

\* sap_session 155-159 (server.py), 289-293 (logon_pad.py): the environment alone.
EnvResolve(e) ==
    [f \in Fields |->
        IF f = "language" THEN GetenvDefault(e, f, "EN") ELSE Getenv(e, f)]

NoRec == [f \in Fields |-> None]
\* Arguments the invocation does not read again.
Forgotten == [f \in Fields |-> "<forgotten>"]

VARIABLES
    pc,         \* position of the running invocation; "idle" between invocations
    op,         \* the entry point called
    impl,       \* "server" or "logon_pad": whose sap_session / create_sap_session runs
    auto,       \* sap_session's auto_login argument
    given,      \* login_to_sap's arguments as the caller gave them
    env,        \* the environment the invocation reads
    creds,      \* the credentials create_sap_session was called with
    sso,        \* create_sap_session's use_sso
    maxw,       \* create_sap_session's max_wait_time
    now,        \* time since OpenConnection returned
    start_time, \* time.time() at the start of the connection-wait loop
    sleepLeft,  \* what is left of the running time.sleep of the loop
    sessUp,     \* the opened connection has a session
    tUp,        \* when it appeared (-1: not yet)
    tEnd,       \* when the connection-wait loop ended (-1: not yet)
    wrote,      \* how many login fields were written
    calls,      \* the external calls that act on the GUI, in order
    stages,     \* the stages of the auto-login chain attempted, in order
    failed,     \* the stage that failed ("none": none)
    log,        \* the errors the invocation logged, in order
    checked,    \* the required credentials were validated
    faulted,    \* an external call raised during the invocation
    probes,     \* how often the invocation asked for the running GUI: GetObject("SAPGUI")
    before,     \* how the invocation before this one ended ("none": there was none)
    probe,      \* the outcome of the password-field probe ("none": not made)
    arg,        \* the tool's required string argument (None: it has none)
    lookup,     \* the outcome of the tool's element lookup ("none": not made)
    todo,       \* the external calls the tool's body still has to make
    text,       \* grid.SelectedRows as get_selected_grid_rows reads it, a character sequence
    parsed,     \* what get_selected_grid_rows makes of it
    shot,       \* capture_screenshot's arguments and what it did
    exp,        \* export_grid_as_csv's arguments and what it did
    grid,       \* the grid get_grid_data reads and what it makes of it
    launch,     \* launch_sap_logon's arguments and what it did
    inv,        \* two invocations running at once: what each still has to call
    gui,        \* the GUI state of the session the two share
    selected,   \* set_radio_button's selected argument (None: not that tool)
    conns,      \* the session count of each connection, as sap_session found them
    session,    \* what the session acquisition returned
    result      \* what the invocation returned to its caller

callVars == <<op, impl, auto, given, env>>
cssArgs == <<creds, sso, maxw>>
timeVars == <<now, start_time, sleepLeft, sessUp, tUp, tEnd>>
histVars == <<wrote, calls, stages, failed, log, probe, checked, faulted>>
\* The state of the functions that are checked on their own.
\* What only the parts of the model that stand apart use.
apartVars == <<grid, launch, inv, gui>>
extVars == <<text, parsed, apartVars, shot, exp>>
fileVars == <<shot, exp>>
toolVars == <<arg, selected, lookup, todo, extVars, probes, conns, before>>
mainVars == <<pc, callVars, cssArgs, timeVars, histVars, arg, selected, lookup, todo, probes, conns, before,
              session, result>>
vars == <<pc, callVars, cssArgs, timeVars, histVars, toolVars, session, result>>

\* What an invocation returns: a success value, or an error value.
NoResult == [kind |-> "pending", msg |-> NoMsg, error |-> FALSE]
Returned(k, m) == [kind |-> k, msg |-> m, error |-> FALSE]
Failure(k, m) == [kind |-> k, msg |-> m, error |-> TRUE]
\* The exception escapes to the caller.
Propagated == [kind |-> "exception", msg |-> <<"<exc>">>, error |-> TRUE]
\* None comes with the step that failed.
HandleNamingStep(v) ==
    IF v = None THEN [kind |-> "none", msg |-> <<pc>>, error |-> TRUE]
    ELSE [kind |-> "session", msg |-> <<>>, error |-> FALSE]
\* Python's None, or the session handle.
Handle(v) == IF v = None THEN Failure("none", NoMsg) ELSE Returned("session", NoMsg)
\* The message renders an exception: f"...{str(e)}".
RendersException(m) == "<exc>" \in {m[i] : i \in 1..Len(m)}

\* get_selected_grid_rows has not read the selection.
NoParse == [kind |-> "pending", count |-> 0, hasIndices |-> FALSE, rows |-> <<>>]

\* A path is its directory and its file name; os.path.join and os.path.dirname.
NoPath == <<None, None>>
EmptyPath == <<Empty, Empty>>
PathGiven(p) == p # NoPath /\ p # EmptyPath
Join(dir, name) == <<dir, name>>
Dirname(p) == p[1]

\* capture_screenshot has not been called: no window, no HardCopy, no file.
NoShot == [output_path |-> NoPath, window_id |-> None, window |-> "none",
           hardcopy |-> "none", path |-> NoPath, format |-> -1, exists |-> FALSE]
\* export_grid_as_csv has not been called.
NoExport == [output_path |-> NoPath, identifier |-> None, path |-> EmptyPath,
             written |-> NoPath, exists |-> FALSE, first |-> NoPath]
\* Nothing is under way in the functions checked on their own.
\* get_grid_data has nothing to read.
NoGrid == [kind |-> "none", row_count |-> 0, column_order |-> <<>>,
           columns |-> <<>>, rows |-> <<>>]
\* launch_sap_logon has not been called.
NoLaunch == [max_retries |-> 0, first |-> "none", path |-> "none", started |-> 0,
             probed |-> 0, up |-> FALSE]
\* No two invocations are running at once.
NoInv == [i \in {1, 2} |-> [op |-> "none", begun |-> FALSE, todo |-> <<>>]]
\* The shared screen: the grid's current cell, the login fields, and what was
\* done to it: every call with the invocation that made it, every double
\* click with the current cell it met, every Enter with the fields it sent.
NoGui == [row |-> -1, column |-> -1, fields |-> [f \in Fields |-> Empty],
          acted |-> <<>>, clicked |-> <<>>, entered |-> <<>>]
\* sap_session has not looked at the connections.
NoConns == [read |-> FALSE, counts |-> <<>>, picked |-> <<>>]
Apart == grid = NoGrid /\ launch = NoLaunch /\ inv = NoInv /\ gui = NoGui
ExtIdle == text = <<>> /\ parsed = NoParse /\ shot = NoShot /\ exp = NoExport /\ Apart

\* No invocation is running.
Idle ==
    /\ pc = "idle"
    /\ op = "none" /\ impl = "server" /\ auto = FALSE
    /\ given = NoRec /\ env = NoRec
    /\ creds = NoRec /\ sso = FALSE /\ maxw = 0
    /\ now = 0 /\ start_time = 0 /\ sleepLeft = 0
    /\ sessUp = FALSE /\ tUp = -1 /\ tEnd = -1
    /\ wrote = 0 /\ calls = <<>> /\ stages = <<>> /\ failed = "none"
    /\ log = <<>> /\ probe = "none" /\ checked = FALSE /\ faulted = FALSE
    /\ arg = None /\ lookup = "none" /\ todo = <<>> /\ probes = 0
    /\ selected = None /\ conns = NoConns
    /\ session = None /\ result = NoResult

Init == Idle /\ before = "none" /\ ExtIdle

\* How an invocation ended, for the one after it.
Outcome(r) == IF r.error THEN "failed" ELSE "returned"

\* The invocation has returned: its locals are gone, and the module holds no
\* session handle or other state for the next one.
ReturnKeepingSession ==
    /\ pc = "done"
    /\ pc' = "idle"
    /\ before' = Outcome(result)
    /\ UNCHANGED <<callVars, cssArgs, timeVars, histVars, arg, selected, lookup, todo, extVars,
                   probes, conns, session, result>>
Return ==
    /\ pc = "done"
    /\ text' = <<>> /\ parsed' = NoParse /\ shot' = NoShot /\ exp' = NoExport
    /\ pc' = "idle"
    /\ op' = "none" /\ impl' = "server" /\ auto' = FALSE
    /\ given' = NoRec /\ env' = NoRec
    /\ creds' = NoRec /\ sso' = FALSE /\ maxw' = 0
    /\ now' = 0 /\ start_time' = 0 /\ sleepLeft' = 0
    /\ sessUp' = FALSE /\ tUp' = -1 /\ tEnd' = -1
    /\ wrote' = 0 /\ calls' = <<>> /\ stages' = <<>> /\ failed' = "none"
    /\ log' = <<>> /\ probe' = "none" /\ checked' = FALSE /\ faulted' = FALSE
    /\ arg' = None /\ lookup' = "none" /\ todo' = <<>> /\ probes' = 0
    /\ selected' = None /\ conns' = NoConns
    /\ grid' = NoGrid /\ launch' = NoLaunch /\ UNCHANGED <<inv, gui>>
    /\ session' = None /\ result' = NoResult
    /\ before' = Outcome(result)

ArgChoices(f) ==
    {Omitted, Empty, ExplicitVal[f]} \cup (IF f = "language" THEN {None} ELSE {})
EnvChoices(f) == {None, Empty, EnvVal[f]}
GivenSet ==
    [system : ArgChoices("system"), client : ArgChoices("client"),
     user : ArgChoices("user"), password : ArgChoices("password"),
     language : ArgChoices("language")]
EnvSet ==
    [system : EnvChoices("system"), client : EnvChoices("client"),
     user : EnvChoices("user"), password : EnvChoices("password"),
     language : EnvChoices("language")]

(***************************************************************************)
(* create_sap_session (server.py 19-114, logon_pad.py 136-249).            *)
(***************************************************************************)
\* create_sap_session returns v to login_to_sap, or to the outside caller.
CssReturn(v) ==
    /\ session' = v
    /\ IF op = "login_to_sap"
       THEN pc' = "lts_result" /\ result' = result
       ELSE /\ pc' = "done"
            /\ result' = Handle(v)

\* A stage fails, is logged, and the call goes on to open the connection.
CssFailGoesOn(stage, msg) ==
    /\ failed' = stage
    /\ log' = Append(log, msg)
    /\ faulted' = (faulted \/ RendersException(msg))
    /\ pc' = "css_OpenConnection"
    /\ UNCHANGED <<session, result>>

\* A stage fails for the first time: the error is logged and the login
\* sequence is driven once more from OpenConnection.
CssFailRetries(stage, msg) ==
    /\ failed' = stage
    /\ log' = Append(log, msg)
    /\ faulted' = (faulted \/ RendersException(msg))
    /\ IF failed = "none"
       THEN pc' = "css_OpenConnection" /\ UNCHANGED <<session, result>>
       ELSE CssReturn(None)

\* A stage fails: the error is logged and None is returned.
CssFail(stage, msg) ==
    /\ failed' = stage
    /\ log' = Append(log, msg)
    /\ faulted' = (faulted \/ RendersException(msg))
    /\ CssReturn(None)

\* win32com.client.GetObject("SAPGUI")
CssGetObject ==
    /\ probes' = probes + 1 /\ UNCHANGED conns
    /\ UNCHANGED <<arg, selected, lookup, todo, extVars, before>>
    /\ pc = "css_GetObject"
    /\ stages' = Append(stages, "locate")
    /\ \/ pc' = "css_GetScriptingEngine" /\ UNCHANGED <<failed, log, faulted, session, result>>
       \/ CssFail("locate", MsgNotRunning)
       \/ CssFail("locate", MsgCreateFailed)
    /\ UNCHANGED <<callVars, cssArgs, timeVars, wrote, calls, probe, checked>>

\* sap_gui.GetScriptingEngine
CssGetScriptingEngine ==
    /\ UNCHANGED toolVars
    /\ pc = "css_GetScriptingEngine"
    /\ stages' = Append(stages, "engine")
    /\ \/ pc' = "css_OpenConnection" /\ UNCHANGED <<failed, log, faulted, session, result>>
       \/ CssFail("engine", MsgNoEngine)
       \/ CssFail("engine", MsgCreateFailed)
    /\ UNCHANGED <<callVars, cssArgs, timeVars, wrote, calls, probe, checked>>

\* sap_application.OpenConnection(system, True)
CssOpenConnection ==
    /\ UNCHANGED toolVars
    /\ pc = "css_OpenConnection"
    /\ stages' = Append(stages, "open")
    /\ calls' = Append(calls, <<"OpenConnection", creds.system>>)
    /\ \/ pc' = "css_wait_start" /\ UNCHANGED <<failed, log, faulted, session, result>>
       \/ CssFail("open", MsgNoConnection(creds.system))
       \/ CssFail("open", MsgCreateFailed)
    /\ UNCHANGED <<callVars, cssArgs, timeVars, wrote, probe, checked>>

\* start_time = time.time()
CssWaitStart ==
    /\ UNCHANGED toolVars
    /\ pc = "css_wait_start"
    /\ pc' = "css_poll"
    /\ start_time' = now
    /\ stages' = Append(stages, "wait")
    /\ UNCHANGED <<callVars, cssArgs, now, sleepLeft, sessUp, tUp, tEnd,
                   wrote, calls, failed, log, probe, checked, faulted, session, result>>

\* The loop's time.sleep: 0.5 s in both files.
Poll(i) == IF i = "server" THEN SERVER_POLL ELSE POLLING_INTERVAL

\* The loop goes on until a session appears, however long that takes.
KeepWaitingNoTimeout(up, elapsed, m) == ~up
\* The condition of the connection-wait loop.
KeepWaitingFullTimeout(up, elapsed, m) == elapsed < m
KeepWaiting(up, elapsed, m) == ~up /\ elapsed < m

\* while <no session> and (time.time() - start_time) < max_wait_time:
CssPoll ==
    /\ UNCHANGED toolVars
    /\ pc = "css_poll"
    /\ \/ /\ KeepWaiting(sessUp, now - start_time, maxw)
          /\ pc' = "css_sleep"
          /\ sleepLeft' = Poll(impl)
          /\ UNCHANGED <<tEnd, failed, log, faulted, session, result>>
       \/ /\ ~KeepWaiting(sessUp, now - start_time, maxw)
          /\ pc' = "css_after_wait"
          /\ tEnd' = now
          /\ UNCHANGED <<sleepLeft, failed, log, faulted, session, result>>
       \/ \* reading connection.Sessions raises
          /\ tEnd' = now
          /\ CssFail("wait", MsgCreateFailed)
          /\ UNCHANGED sleepLeft
    /\ UNCHANGED <<callVars, cssArgs, now, start_time, sessUp, tUp,
                   wrote, calls, stages, probe, checked>>

\* How far the clock is followed: no call sleeps later than its timeout and
\* the sleep that was running when the timeout came.
MaxClock == start_time + maxw + Poll(impl)

\* time.sleep(0.5) of the loop, a quarter second at a time.
CssSleepTick ==
    /\ UNCHANGED toolVars
    /\ pc = "css_sleep"
    /\ now < MaxClock
    /\ now' = now + 1
    /\ sleepLeft' = sleepLeft - 1
    /\ pc' = IF sleepLeft = 1 THEN "css_poll" ELSE "css_sleep"
    /\ UNCHANGED <<callVars, cssArgs, start_time, sessUp, tUp, tEnd,
                   histVars, session, result>>

\* The GUI creates the session window of the opened connection.
GuiSessionAppears ==
    /\ UNCHANGED toolVars
    /\ pc \in {"css_wait_start", "css_poll", "css_sleep", "css_after_wait"}
    /\ ~sessUp
    /\ sessUp' = TRUE
    /\ tUp' = now
    /\ UNCHANGED <<pc, callVars, cssArgs, now, start_time, sleepLeft, tEnd,
                   histVars, session, result>>

\* if not connection.Sessions: ... return None;  session = connection.Sessions[0]
\* The loop's clock is not read again.
CssAfterWait ==
    /\ UNCHANGED toolVars
    /\ pc = "css_after_wait"
    /\ \/ /\ sessUp
          /\ pc' = "css_login"
          /\ stages' = Append(stages, "login")
          /\ now' = 0 /\ start_time' = 0 /\ tUp' = -1 /\ tEnd' = -1
          /\ UNCHANGED <<failed, log, faulted, session, result>>
       \/ /\ ~sessUp
          /\ CssFail("wait", MsgNoSession)
          /\ UNCHANGED <<stages, now, start_time, tUp, tEnd>>
       \/ /\ CssFail("wait", MsgCreateFailed)
          /\ UNCHANGED <<stages, now, start_time, tUp, tEnd>>
    /\ UNCHANGED <<callVars, cssArgs, sleepLeft, sessUp, wrote, calls, probe, checked>>

\* Enter is sent once every field of the chosen path is written.
EnterReadyEarly(n, w) == n >= Len(w) - 1
EnterReady(n, w) == n = Len(w)

\* session.FindById(<field>).Text = <value>, for the next field of the path.
CssWrite ==
    /\ UNCHANGED toolVars
    /\ pc = "css_login"
    /\ ~EnterReady(wrote, LoginWrites(sso, creds))
    /\ LET f == LoginWrites(sso, creds)[wrote + 1]
           ev == <<"Text", FieldId[f], creds[f]>>
       IN \/ \* the write is made
             /\ calls' = Append(calls, ev)
             /\ wrote' = wrote + 1
             /\ UNCHANGED <<pc, failed, log, faulted, session, result>>
          \/ \* FindById raises
             /\ CssFail("login", MsgLoginError)
             /\ UNCHANGED <<calls, wrote>>
          \/ \* the assignment raises
             /\ calls' = Append(calls, ev)
             /\ CssFail("login", MsgLoginError)
             /\ UNCHANGED wrote
    /\ UNCHANGED <<callVars, cssArgs, timeVars, stages, probe, checked>>

\* session.FindById("wnd[0]").SendVKey(0)
CssSendEnter ==
    /\ UNCHANGED toolVars
    /\ pc = "css_login"
    /\ EnterReady(wrote, LoginWrites(sso, creds))
    /\ \/ /\ calls' = Append(calls, <<"SendVKey", "wnd[0]">>)
          /\ pc' = "css_probe"
          /\ UNCHANGED <<failed, log, faulted, session, result>>
       \/ /\ CssFail("login", MsgLoginError)
          /\ UNCHANGED calls
       \/ /\ calls' = Append(calls, <<"SendVKey", "wnd[0]">>)
          /\ CssFail("login", MsgLoginError)
    /\ UNCHANGED <<callVars, cssArgs, timeVars, wrote, stages, probe, checked>>

\* The login is judged by the probe's outcome: success when the lookup raises.
JudgedByReturn(outcome) == outcome = "returned"
Judged(outcome) == outcome = "raised"

\* time.sleep(...); session.FindById("wnd[0]/usr/pwdRSYST-BCODE")
CssProbe ==
    /\ UNCHANGED toolVars
    /\ pc = "css_probe"
    /\ stages' = Append(stages, "probe")
    /\ calls' = Append(calls, <<"FindById", FieldId.password>>)
    /\ \E outcome \in {"returned", "raised"} :
        /\ probe' = outcome
        /\ IF Judged(outcome)
           THEN CssReturn(Session) /\ UNCHANGED <<failed, log>>
                    /\ faulted' = (faulted \/ outcome = "raised")
           ELSE CssFail("probe", MsgStillOnLogin)
    /\ UNCHANGED <<callVars, cssArgs, timeVars, wrote, checked>>

(***************************************************************************)
(* login_to_sap (server.py 237-309).                                       *)
(***************************************************************************)
\* 259-279: bind, resolve, validate.  With a field missing the call returns here.
LoginToSap ==
    /\ UNCHANGED toolVars
    /\ pc = "idle"
    /\ \E g \in GivenSet, e \in EnvSet :
        /\ op' = "login_to_sap"
        /\ given' = g /\ env' = e
        /\ checked' = TRUE
        /\ LET c == LoginResolve(LoginParams(g), e) IN
           IF Missing(c) # <<>>
           THEN /\ pc' = "done"
                /\ result' = Failure("str", MsgLoginMissing(c))
                /\ log' = <<MsgLoginMissing(c)>>
                /\ creds' = NoRec
           ELSE /\ pc' = "lts_call"
                /\ creds' = c
                /\ UNCHANGED <<result, log>>
    /\ UNCHANGED <<impl, auto, sso, maxw, timeVars, wrote, calls, stages, failed,
                   probe, faulted, session>>

\* 282-288: create_sap_session(...) with max_wait_time's default, 30 s.
\* The arguments and the environment are not read again.
LtsCall ==
    /\ UNCHANGED toolVars
    /\ pc = "lts_call"
    /\ pc' = "css_GetObject"
    /\ maxw' = SERVER_MAX_WAIT
    /\ given' = Forgotten /\ env' = Forgotten
    /\ UNCHANGED <<op, impl, auto, creds, sso, timeVars, histVars, session, result>>

\* What login_to_sap returns for a failed create_sap_session.
MsgLoginFailedFromLog(sys, lg) == lg[Len(lg)]
MsgLoginFailure(sys, lg) == MsgLoginFailed(sys)

\* 290-309
LtsResult ==
    /\ UNCHANGED toolVars
    /\ pc = "lts_result"
    /\ pc' = "done"
    /\ IF session # None
       THEN /\ \/ result' = Returned("str", MsgLoginInfo) /\ UNCHANGED faulted
               \/ \* reading session.Id or session.Info raises
                  result' = Returned("str", MsgLoginNoInfo(creds.user)) /\ faulted' = TRUE
            /\ UNCHANGED log
       ELSE /\ result' = Failure("str", MsgLoginFailure(creds.system, log))
            /\ log' = Append(log, MsgLoginFailure(creds.system, log))
            /\ UNCHANGED faulted
    /\ UNCHANGED <<callVars, cssArgs, timeVars, wrote, calls, stages, failed, probe,
                   checked, session>>

(***************************************************************************)
(* create_sap_session called directly.                                     *)
(***************************************************************************)
\* server.py 19-26: client, user and password are required strings.
ServerCssArgs ==
    [system : {ExplicitVal.system}, client : {Empty, ExplicitVal.client},
     user : {ExplicitVal.user}, password : {ExplicitVal.password},
     language : {"EN", ExplicitVal.language}]
\* logon_pad.py 136-144: all but system are optional.
LogonPadCssArgs ==
    [system : {ExplicitVal.system}, client : {None, Empty, ExplicitVal.client},
     user : {None, ExplicitVal.user}, password : {None, ExplicitVal.password},
     language : {None, ExplicitVal.language}]

CreateSapSession ==
    /\ UNCHANGED toolVars
    /\ pc = "idle"
    /\ op' = "create_sap_session"
    /\ pc' = "css_GetObject"
    /\ \E m \in 0..MaxWaitTime :
        /\ maxw' = m
        /\ \/ \E c \in ServerCssArgs :
                creds' = c /\ impl' = "server" /\ sso' = FALSE
           \/ \E c \in LogonPadCssArgs, s \in BOOLEAN :
                creds' = c /\ impl' = "logon_pad" /\ sso' = s
    /\ UNCHANGED <<auto, given, env, timeVars, histVars, session, result>>

(***************************************************************************)
(* sap_session (server.py 117-189, logon_pad.py 252-328).                  *)
(***************************************************************************)
MsgSsNotRunning == <<"SAP GUI is not running.">>
MsgSsNoSession == <<"No SAP connections or sessions found.">>
MsgSsError == <<"Error in sap_session: ", "<exc>">>

\* max_wait_time's default: 30 (server.py 25), WAIT_TIME (logon_pad.py 142).
DefaultMaxWait(i) == IF i = "server" THEN SERVER_MAX_WAIT ELSE WAIT_TIME

SapSession ==
    /\ UNCHANGED toolVars
    /\ pc = "idle"
    /\ op' = "sap_session"
    /\ pc' = "ss_GetObject"
    /\ \E i \in {"server", "logon_pad"} : impl' = i
    /\ \/ auto' = FALSE /\ UNCHANGED env
       \/ auto' = TRUE /\ \E e \in EnvSet : env' = e
    /\ UNCHANGED <<given, cssArgs, timeVars, histVars, session, result>>

\* sap_session returns v to its caller.
SsReturn(v) ==
    /\ session' = v
    /\ IF op = "sap_session"
       THEN pc' = "done" /\ result' = Handle(v)
       ELSE pc' = "tool_session" /\ result' = result

SsFail(msg) ==
    /\ log' = Append(log, msg)
    /\ faulted' = (faulted \/ RendersException(msg))
    /\ SsReturn(None)

\* The probe is made again when it fails, up to three times.
SsGetObjectRetrying ==
    /\ probes' = probes + 1 /\ UNCHANGED conns
    /\ UNCHANGED <<arg, selected, lookup, todo, extVars, before>>
    /\ pc = "ss_GetObject"
    /\ \/ pc' = "ss_GetScriptingEngine" /\ UNCHANGED <<log, faulted, session, result>>
       \/ probes < 2 /\ UNCHANGED <<pc, log, faulted, session, result>>
       \/ probes >= 2 /\ SsFail(MsgSsNotRunning)
    /\ UNCHANGED <<callVars, cssArgs, timeVars, wrote, calls, stages, failed, probe, checked>>

\* win32com.client.GetObject("SAPGUI")
SsGetObject ==
    /\ probes' = probes + 1 /\ UNCHANGED conns
    /\ UNCHANGED <<arg, selected, lookup, todo, extVars, before>>
    /\ pc = "ss_GetObject"
    /\ \/ pc' = "ss_GetScriptingEngine" /\ UNCHANGED <<log, faulted, session, result>>
       \/ SsFail(MsgSsNotRunning)
       \/ SsFail(MsgSsError)
    /\ UNCHANGED <<callVars, cssArgs, timeVars, wrote, calls, stages, failed, probe, checked>>

\* sap_gui.GetScriptingEngine
SsGetScriptingEngine ==
    /\ UNCHANGED toolVars
    /\ pc = "ss_GetScriptingEngine"
    /\ \/ pc' = "ss_Connections" /\ UNCHANGED <<log, faulted, session, result>>
       \/ SsFail(MsgNoEngine)
       \/ SsFail(MsgSsError)
    /\ UNCHANGED <<callVars, cssArgs, timeVars, wrote, calls, stages, failed, probe, checked>>

\* The connections the scripting engine can hold, each as the number of its
\* sessions; a Connections or Sessions that is None counts as empty.
ConnSets == {<<>>, <<0>>, <<1>>, <<0, 1>>, <<2, 0>>}
\* A session of any connection that has one is taken.
AnySession(c) ==
    IF \E i \in 1..Len(c) : c[i] > 0
    THEN <<CHOOSE i \in 1..Len(c) : c[i] > 0 /\ \A j \in 1..(i - 1) : c[j] = 0, 1>>
    ELSE <<>>
\* Connections[0].Sessions[0] as <<1, 1>>, when there is one.
ExistingSession(c) == IF Len(c) > 0 /\ c[1] > 0 THEN <<1, 1>> ELSE <<>>

\* With auto_login on, the login is driven whether a session exists or not.
SsConnectionsLoginFirst ==
    /\ UNCHANGED <<arg, selected, lookup, todo, extVars, probes, before>>
    /\ pc = "ss_Connections"
    /\ \/ \E c \in ConnSets :
            /\ conns' = [read |-> TRUE, counts |-> c, picked |-> ExistingSession(c)]
            /\ IF ExistingSession(c) # <<>> /\ ~auto
               THEN SsReturn(Session) /\ UNCHANGED <<log, faulted>>
               ELSE pc' = "ss_no_session" /\ UNCHANGED <<log, faulted, session, result>>
       \/ SsFail(MsgSsError) /\ UNCHANGED conns
    /\ UNCHANGED <<callVars, cssArgs, timeVars, wrote, calls, stages, failed, probe, checked>>

\* The check for an existing session on sap_application.Connections[0].
SsConnections ==
    /\ UNCHANGED <<arg, selected, lookup, todo, extVars, probes, before>>
    /\ pc = "ss_Connections"
    /\ \/ \E c \in ConnSets :
            /\ conns' = [read |-> TRUE, counts |-> c, picked |-> ExistingSession(c)]
            /\ IF ExistingSession(c) # <<>>
               THEN SsReturn(Session) /\ UNCHANGED <<log, faulted>>
               ELSE pc' = "ss_no_session" /\ UNCHANGED <<log, faulted, session, result>>
       \/ SsFail(MsgSsError) /\ UNCHANGED conns
    /\ UNCHANGED <<callVars, cssArgs, timeVars, wrote, calls, stages, failed, probe, checked>>

\* if not auto_login: ... return None
SsNoAutoLogin ==
    /\ UNCHANGED toolVars
    /\ pc = "ss_no_session"
    /\ ~auto
    /\ SsFail(MsgSsNoSession)
    /\ UNCHANGED <<callVars, cssArgs, timeVars, wrote, calls, stages, failed, probe, checked>>

\* The auto-login: the credentials of the environment, validated, then
\* create_sap_session with its defaults.
SsAutoLogin ==
    /\ UNCHANGED toolVars
    /\ pc = "ss_no_session"
    /\ auto
    /\ checked' = TRUE
    /\ LET c == EnvResolve(env) IN
       IF Missing(c) # <<>>
       THEN /\ SsFail(MsgEnvMissing(c))
            /\ UNCHANGED <<creds, maxw>>
       ELSE /\ pc' = "css_GetObject"
            /\ creds' = c
            /\ maxw' = DefaultMaxWait(impl)
            /\ UNCHANGED <<log, faulted, session, result>>
    /\ UNCHANGED <<callVars, sso, timeVars, wrote, calls, stages, failed, probe>>

\* is_sap_logon_running (logon_pad.py 36-48): one GetObject("SAPGUI"); True
\* when it returns an object, False when it returns None or raises.
IsSapLogonRunning ==
    /\ pc = "idle"
    /\ op' = "is_sap_logon_running"
    /\ impl' = "logon_pad"
    /\ probes' = probes + 1 /\ UNCHANGED conns
    /\ \/ result' = Returned("bool", <<"True">>) /\ UNCHANGED faulted
       \/ result' = Returned("bool", <<"False">>) /\ UNCHANGED faulted
       \/ result' = Returned("bool", <<"False">>) /\ faulted' = TRUE
    /\ pc' = "done"
    /\ UNCHANGED <<auto, given, env, cssArgs, timeVars, wrote, calls, stages, failed, log,
                   probe, checked, arg, selected, lookup, todo, extVars, before, session>>

(***************************************************************************)
(* The tool dispatch layer (server.py 213-1036).  A tool is described by   *)
(*   param      its required string parameter ("none": it has none)        *)
(*   validates  it returns a parameter error when the parameter is empty   *)
(*   tryFrom    where its try block starts: at sap_session() ("session")   *)
(*              or after the session check ("lookup")                      *)
(*   lookup     the call that resolves its element ("none": none)          *)
(*   nullCheck  it tests the lookup's result before using it               *)
(*   acts       the external calls of its body, after the lookup           *)
(*   each       the external calls made per item of the body's loop        *)
(*   returns    the kind of its error values; yields: of its success value *)
(*   errorText, errorNames   the except handler's message, and whether it  *)
(*              holds the parameter                                        *)
(***************************************************************************)
SessionTool ==
    [param |-> "none", validates |-> FALSE, tryFrom |-> "lookup", lookup |-> "none",
     nullCheck |-> FALSE, acts |-> <<>>, each |-> <<>>, returns |-> "str",
     yields |-> "str", errorText |-> "", errorNames |-> FALSE]
CommandTool ==
    [SessionTool EXCEPT !.param = "command", !.validates = TRUE, !.errorNames = TRUE]
ElementTool ==
    [SessionTool EXCEPT !.param = "element_id", !.validates = TRUE,
                        !.lookup = "FindById", !.nullCheck = TRUE, !.errorNames = TRUE]
GridTool ==
    [SessionTool EXCEPT !.param = "element_id", !.tryFrom = "session",
                        !.lookup = "FindById", !.returns = "dict", !.yields = "dict"]
ScrollbarTool ==
    [SessionTool EXCEPT !.param = "element_id", !.validates = TRUE,
                        !.lookup = "FindById", !.nullCheck = TRUE,
                        !.returns = "dict", !.yields = "dict"]

\* One record per tool, by the name it is registered under.
ToolTable ==
    [
    \* server.py 213-233
    get_session_info |->
        [SessionTool EXCEPT
            !.acts = <<"Id", "Info.User", "Info.Client", "Info.Language",
                       "Info.SystemName", "Info.SystemNumber">>,
            !.errorText = "Failed to retrieve session information: "],
    \* server.py 312-331
    start_transaction |->
        [CommandTool EXCEPT !.param = "transaction_code", !.acts = <<"StartTransaction">>,
                            !.errorText = "Failed to start transaction "],
    \* server.py 334-349
    end_transaction |->
        [SessionTool EXCEPT !.acts = <<"EndTransaction">>,
                            !.errorText = "Failed to end transaction: "],
    \* server.py 192-368
    \* With sap_object_tree_as_json (192-210): Children, then per window its Id,
    \* GetObjectTree and json.loads.
    get_sap_gui_tree |->
        [SessionTool EXCEPT !.acts = <<"Children">>,
                            !.each = <<"Id", "GetObjectTree", "json.loads">>,
                            !.errorText = "Failed to retrieve SAP GUI tree: "],
    \* server.py 371-395
    find_by_id |->
        [ElementTool EXCEPT !.acts = <<"Id">>,
                            !.errorText = "Failed to find element with ID "],
    \* server.py 398-417
    send_command |->
        [CommandTool EXCEPT !.acts = <<"SendCommand">>,
                            !.errorText = "Failed to send command "],
    \* server.py 420-439
    send_command_async |->
        [CommandTool EXCEPT !.acts = <<"SendCommandAsync">>,
                            !.errorText = "Failed to send command asynchronously "],
    \* server.py 442-457
    check_gui_busy |->
        [SessionTool EXCEPT !.acts = <<"Busy">>,
                            !.errorText = "Failed to check if SAP GUI is busy: "],
    \* server.py 460-484
    find_by_name |->
        [ElementTool EXCEPT !.param = "element_name", !.lookup = "FindByName",
                            !.acts = <<"Id">>,
                            !.errorText = "Failed to find element with name "],
    \* server.py 487-512
    find_all_by_name |->
        [ElementTool EXCEPT !.param = "element_name", !.lookup = "FindAllByName",
                            !.each = <<"Id">>, !.yields = "list",
                            !.errorText = "Failed to find elements with name "],
    \* server.py 515-539
    set_text |->
        [ElementTool EXCEPT !.acts = <<"Text=">>,
                            !.errorText = "Failed to set text for element ID "],
    \* server.py 542-566
    get_text |->
        [ElementTool EXCEPT !.acts = <<"Text (read)">>,
                            !.errorText = "Failed to get text for element ID "],
    \* server.py 569-593
    press_button |->
        [ElementTool EXCEPT !.acts = <<"Press">>,
                            !.errorText = "Failed to press button with element ID "],
    \* server.py 596-620
    set_radio_button |->
        [ElementTool EXCEPT !.acts = <<"Select">>,
                            !.errorText = "Failed to set radio button with element ID "],
    \* server.py 623-667
    \* The title loop and the cell loop are counted as one loop over the items read.
    get_grid_data |->
        [GridTool EXCEPT
            !.acts = <<"RowCount", "VisibleRowCount", "ColumnCount", "ColumnOrder">>,
            !.each = <<"ColumnOrder.Item", "GetColumnTitles", "GetCellValue">>,
            !.errorText = "Failed to extract grid data from element: ",
            !.errorNames = TRUE],
    \* server.py 670-695
    get_grid_cell_value |->
        [GridTool EXCEPT !.acts = <<"GetCellValue", "GetColumnTitle">>,
                         !.errorText = "Failed to get cell value at row, column"],
    \* server.py 698-723
    select_grid_row |->
        [GridTool EXCEPT !.acts = <<"CurrentCellRow=", "SelectedRows=">>,
                         !.errorText = "Failed to select row"],
    \* server.py 726-774
    get_selected_grid_rows |->
        [GridTool EXCEPT !.acts = <<"SelectedRows", "ColumnCount">>,
                         !.each = <<"GetColumnTitle", "GetCellValue">>,
                         !.errorText = "Failed to get selected rows"],
    \* server.py 777-810
    double_click_grid_cell |->
        [GridTool EXCEPT
            !.acts = <<"CurrentCellRow=", "CurrentCellColumn=", "DoubleClick">>,
            !.errorText = "Failed to double-click cell at row, column"],
    \* server.py 813-837
    set_checkbox |->
        [ElementTool EXCEPT !.acts = <<"Selected=">>,
                            !.errorText = "Failed to set checkbox with element ID "],
    \* server.py 840-867
    get_vertical_scrollbar_position |->
        [ScrollbarTool EXCEPT !.acts = <<"VerticalScrollbar.Position">>,
                              !.errorText = "Failed to get vertical scrollbar position"],
    \* server.py 870-898
    set_vertical_scrollbar_position |->
        [ScrollbarTool EXCEPT !.acts = <<"VerticalScrollbar.Position=">>,
                              !.errorText = "Failed to set vertical scrollbar position"],
    \* server.py 901-928
    get_horizontal_scrollbar_position |->
        [ScrollbarTool EXCEPT !.acts = <<"HorizontalScrollbar.Position">>,
                              !.errorText = "Failed to get horizontal scrollbar position"],
    \* server.py 931-959
    set_horizontal_scrollbar_position |->
        [ScrollbarTool EXCEPT !.acts = <<"HorizontalScrollbar.Position=">>,
                              !.errorText = "Failed to set horizontal scrollbar position"],
    \* server.py 962-982
    maximize_window |->
        [SessionTool EXCEPT !.lookup = "ActiveWindow", !.nullCheck = TRUE,
                            !.acts = <<"Maximize">>,
                            !.errorText = "Failed to maximize window: "],
    \* server.py 985-1009
    set_focus |->
        [ElementTool EXCEPT !.acts = <<"SetFocus">>,
                            !.errorText = "Failed to set focus for element ID "],
    \* server.py 1012-1036
    set_combobox |->
        [ElementTool EXCEPT !.acts = <<"Key=">>,
                            !.errorText = "Failed to set combo box with element ID "]
    ]
ToolNames == DOMAIN ToolTable

\* Most items a loop of a tool's body runs over.
MaxItems == 2
\* A non-empty argument.
ArgValue == "wnd[0]/usr/ctxtFIELD"

RECURSIVE Repeat(_, _)
Repeat(q, n) == IF n = 0 THEN <<>> ELSE q \o Repeat(q, n - 1)
\* The body makes each of its calls twice.
BodyTwice(T, n) == T.acts \o T.acts \o Repeat(T.each, n)
Body(T, n) == T.acts \o Repeat(T.each, n)

MsgParamError(T) ==
    CASE T.param = "element_id" -> <<"No element ID specified.">>
      [] T.param = "element_name" -> <<"No element name specified.">>
      [] T.param = "command" -> <<"No command specified.">>
      [] T.param = "transaction_code" -> <<"No transaction code specified.">>
\* Each tool adds what it could not do ("Cannot set text.").
MsgToolNoSession == <<"No current session available.">>
MsgNotFound(T, a) ==
    CASE T.lookup = "FindById" /\ T.returns = "str" -> <<"No element found with ID: ", a>>
      [] T.lookup = "FindById" /\ T.returns = "dict" -> <<"No grid found with ID: ", a>>
      [] T.lookup = "FindByName" -> <<"No element found with name: ", a>>
      [] T.lookup = "FindAllByName" -> <<"No elements found with name: ", a>>
      [] T.lookup = "ActiveWindow" -> <<"No active window found in the current session.">>
\* The except handler's value: the message, the parameter where the handler
\* names it, and str(e).
MsgToolError(T, a) ==
    IF T.errorNames THEN <<T.errorText, a, "<exc>">> ELSE <<T.errorText, "<exc>">>
MsgToolDone(T, a) == <<"done">>

\* The tool's try block covers the external call made at `where`.
CoversBodyOnly(T, where) == where = "act"
Covers(T, where) == where \in {"lookup", "act"} \/ T.tryFrom = "session"

\* The tool returns r; the string tools log their errors.
ToolReturn(T, r) ==
    /\ pc' = "done"
    /\ result' = r
    /\ log' = IF r.error /\ r.kind = "str" THEN Append(log, r.msg) ELSE log

\* An exception is raised at `where`: the handler's value, or the exception.
ToolRaise(T, where) ==
    IF Covers(T, where)
    THEN ToolReturn(T, Failure(T.returns, MsgToolError(T, arg)))
    ELSE ToolReturn(T, Propagated)

\* sap_session's auto_login when the caller passes none: every tool calls
\* sap_session().
AutoLoginOn == TRUE
AutoLoginDefault == FALSE
\* The environment a tool runs in: no credentials configured, or all of them.
ToolEnvSet == {NoRec, EnvVal}

\* The call: the parameter check, then sap_session() with auto_login off.
ToolCall ==
    /\ UNCHANGED <<extVars, probes, conns, before>>
    /\ pc = "idle"
    /\ \E t \in ToolNames :
        LET T == ToolTable[t] IN
        \E a \in IF T.param = "none" THEN {None} ELSE {Empty, ArgValue} :
            /\ op' = t
            /\ arg' = a
            /\ \E b \in IF t = "set_radio_button" THEN {"True", "False"} ELSE {None} :
                    selected' = b
            /\ auto' = AutoLoginDefault
            /\ \E e \in ToolEnvSet : env' = e
            /\ IF T.validates /\ ~Truthy(a)
               THEN ToolReturn(T, Failure(T.returns, MsgParamError(T)))
               ELSE pc' = "ss_GetObject" /\ UNCHANGED <<result, log>>
    /\ UNCHANGED <<impl, given, cssArgs, timeVars, wrote, calls, stages,
                   failed, probe, checked, faulted, lookup, todo, session>>

\* if not _current_session: return <no session>
ToolNoSession ==
    /\ pc = "tool_session"
    /\ op \in ToolNames
    /\ session = None
    /\ ToolReturn(ToolTable[op], Failure(ToolTable[op].returns, MsgToolNoSession))
    /\ UNCHANGED <<callVars, cssArgs, timeVars, wrote, calls, stages, failed, probe,
                   checked, faulted, toolVars, session>>

\* The element lookup and the test of its result.
ToolLookup ==
    /\ UNCHANGED <<extVars, probes, conns, before>>
    /\ pc = "tool_session"
    /\ op \in ToolNames
    /\ session # None
    /\ LET T == ToolTable[op] IN
       \/ /\ \E n \in 0..(IF T.each = <<>> THEN 0 ELSE MaxItems) : todo' = Body(T, n)
          /\ lookup' = IF T.lookup = "none" THEN "none" ELSE "found"
          /\ pc' = "tool_body"
          /\ UNCHANGED <<result, log, faulted>>
       \/ /\ T.lookup # "none"
          /\ lookup' = "falsy"
          /\ IF T.nullCheck
             THEN ToolReturn(T, Failure(T.returns, MsgNotFound(T, arg)))
             ELSE ToolRaise(T, "act")
          /\ UNCHANGED <<todo, faulted>>
       \/ /\ T.lookup # "none"
          /\ lookup' = "raised"
          /\ faulted' = TRUE
          /\ ToolRaise(T, "lookup")
          /\ UNCHANGED todo
    /\ UNCHANGED <<callVars, cssArgs, timeVars, wrote, calls, stages, failed, probe,
                   checked, arg, selected, session>>

\* The next external call of the body.
ToolStep ==
    /\ UNCHANGED <<extVars, probes, conns, before>>
    /\ pc = "tool_body"
    /\ todo # <<>>
    /\ calls' = Append(calls, <<Head(todo)>>)
    /\ LET T == ToolTable[op] IN
       \/ /\ todo' = Tail(todo)
          /\ UNCHANGED <<pc, result, log, faulted>>
       \/ /\ Head(todo) # "json.loads"
          /\ faulted' = TRUE
          /\ ToolRaise(T, "act")
          /\ UNCHANGED todo
       \/ \* JSONDecodeError: sap_object_tree_as_json returns {"Windows": []}
          /\ Head(todo) = "json.loads"
          /\ ToolReturn(T, Returned(T.yields, <<"{Windows: []}">>))
          /\ UNCHANGED <<todo, faulted>>
    /\ UNCHANGED <<callVars, cssArgs, timeVars, wrote, stages, failed, probe,
                   checked, arg, selected, lookup, session>>

\* The body is through: the value or the confirmation.
ToolDone ==
    /\ pc = "tool_body"
    /\ todo = <<>>
    /\ ToolReturn(ToolTable[op], Returned(ToolTable[op].yields, MsgToolDone(ToolTable[op], arg)))
    /\ UNCHANGED <<callVars, cssArgs, timeVars, wrote, calls, stages, failed, probe,
                   checked, faulted, toolVars, session>>

(***************************************************************************)
(* capture_screenshot (sap/gui.py 37-119).                                 *)
(***************************************************************************)
\* HardCopy's format argument: 3 = PNG.
PNG == 3
ScreenshotsDir == "<cwd>/screenshots"
DefaultShotPath == Join(ScreenshotsDir, "sap_screenshot_<timestamp>.png")
\* The output_path arguments: none, "", a bare file name, a file in a directory.
ShotPaths == {NoPath, EmptyPath, Join(Empty, "shot.png"), Join("out", "shot.png")}

\* The path HardCopy is given.
ShotPathAlwaysDefault(o) == DefaultShotPath
ShotPathOf(o) == IF PathGiven(o) THEN o ELSE DefaultShotPath

MsgShotNoSession == <<"No current session available. Cannot capture screenshot.">>
MsgWindowNotFound(w) == <<"Window with ID '", w, "' not found.">>
MsgFindWindowFailed(w) == <<"Failed to find window '", w, "': ", "<exc>">>
MsgNoActiveWindow == <<"No active window found in the current session.">>
MsgShotSaved(p) == <<"Screenshot saved successfully to: ">> \o p
MsgShotNoFile(p) == <<"Screenshot capture completed but file not found at: ">> \o p
MsgShotFailed == <<"Failed to capture screenshot: ", "<exc>">>

\* What is left alone by the steps of capture_screenshot and export_grid_as_csv.
fileFrame == <<callVars, cssArgs, timeVars, wrote, stages, failed, probe, checked,
               arg, selected, lookup, text, parsed, apartVars, probes, conns, before, session>>

\* return ok, msg: a failure is logged.
FileReturn(ok, msg) ==
    /\ pc' = "done"
    /\ result' = IF ok THEN Returned("tuple", msg) ELSE Failure("tuple", msg)
    /\ log' = IF ok THEN log ELSE Append(log, msg)

\* The call; the session is the one passed in, else sap_session()'s.
CaptureScreenshot ==
    /\ pc = "idle"
    /\ op' = "capture_screenshot"
    /\ impl' = "logon_pad"
    /\ \E o \in ShotPaths, w \in {None, Empty, "wnd[0]"} :
            shot' = [NoShot EXCEPT !.output_path = o, !.window_id = w]
    /\ \E s \in {None, Session} :
            /\ session' = s
            /\ pc' = IF s = None THEN "ss_GetObject" ELSE "tool_session"
    /\ UNCHANGED <<auto, given, env, cssArgs, timeVars, histVars, arg, selected, lookup, todo,
                   text, parsed, apartVars, exp, probes, conns, before, result>>

\* 60-63
ShotNoSession ==
    /\ pc = "tool_session" /\ op = "capture_screenshot"
    /\ session = None
    /\ FileReturn(FALSE, MsgShotNoSession)
    /\ UNCHANGED <<fileFrame, fileVars, todo, calls, faulted>>

\* 66-83: the window named by window_id, else the active window.
ShotWindow ==
    /\ pc = "tool_session" /\ op = "capture_screenshot"
    /\ session # None
    /\ LET w == shot.window_id IN
       IF Truthy(w)
       THEN \/ /\ shot' = [shot EXCEPT !.window = "byId"]
               /\ calls' = Append(calls, <<"FindById", w>>)
               /\ pc' = "shot_path"
               /\ UNCHANGED <<result, log, faulted>>
            \/ /\ FileReturn(FALSE, MsgWindowNotFound(w))
               /\ UNCHANGED <<shot, calls, faulted>>
            \/ /\ FileReturn(FALSE, MsgFindWindowFailed(w))
               /\ faulted' = TRUE
               /\ UNCHANGED <<shot, calls>>
       ELSE \/ /\ shot' = [shot EXCEPT !.window = "active"]
               /\ calls' = Append(calls, <<"ActiveWindow">>)
               /\ pc' = "shot_path"
               /\ UNCHANGED <<result, log, faulted>>
            \/ /\ FileReturn(FALSE, MsgNoActiveWindow)
               /\ UNCHANGED <<shot, calls, faulted>>
            \/ /\ FileReturn(FALSE, MsgShotFailed)
               /\ faulted' = TRUE
               /\ UNCHANGED <<shot, calls>>
    /\ UNCHANGED <<fileFrame, exp, todo>>

\* 86-98: the directory of the path is made when it has to be; os.makedirs
\* may raise.
ShotMakeDirs ==
    /\ pc = "shot_path"
    /\ \/ pc' = "shot_hardcopy" /\ UNCHANGED <<result, log>>
       \/ /\ ~PathGiven(shot.output_path) \/ Dirname(shot.output_path) # Empty
          /\ FileReturn(FALSE, MsgShotFailed)
    /\ UNCHANGED <<fileFrame, fileVars, todo, calls, faulted>>

\* 104-114: window.HardCopy(output_path, 3), then os.path.exists(output_path).
ShotHardCopy ==
    /\ pc = "shot_hardcopy"
    /\ LET p == ShotPathOf(shot.output_path) IN
       /\ calls' = Append(calls, <<"HardCopy">> \o p)
       /\ \/ \E e \in BOOLEAN :
               /\ shot' = [shot EXCEPT !.hardcopy = "returned", !.path = p,
                                       !.format = PNG, !.exists = e]
               /\ FileReturn(e, IF e THEN MsgShotSaved(p) ELSE MsgShotNoFile(p))
               /\ UNCHANGED faulted
          \/ /\ shot' = [shot EXCEPT !.hardcopy = "raised", !.path = p, !.format = PNG]
             /\ FileReturn(FALSE, MsgShotFailed)
             /\ faulted' = TRUE
    /\ UNCHANGED <<fileFrame, exp, todo>>

(***************************************************************************)
(* export_grid_as_csv (sap/export_data.py 13-109).                         *)
(***************************************************************************)
ExportsDir == "<cwd>/exports"
\* f"export_{identifier}_{timestamp}.csv", the identifier part left out when
\* there is no identifier.
ExportName(id) ==
    IF Truthy(id) THEN "export_VA01_<timestamp>.csv" ELSE "export_<timestamp>.csv"
\* The output_path arguments: none, a bare file name, a file in a directory.
ExportPaths == {NoPath, Join(Empty, "data.csv"), Join("out", "data.csv")}
\* The directory the export goes to.
ExportDirOf(o) == IF PathGiven(o) THEN Dirname(o) ELSE ExportsDir
\* 78-90: the calls of the export dialog, in order.
ExportSteps ==
    <<"pressToolbarContextButton", "selectContextMenuItem", "FILE_NAME.text=",
      "FORMAT.setFocus", "FORMAT.key=", "btn[20].press", "btn[0].press">>

MsgExpNoSession == <<"No current session available. Cannot export data.">>
MsgGridNotFound(g) == <<"Grid with ID '", g, "' not found.">>
MsgNotGridView(g) == <<"Element with ID '", g, "' is not a GridView. Found type: ", "<subtype>">>
MsgExportStepFailed == <<"Failed to export grid data: ", "<exc>">>
MsgExportSaved(p) == <<"export saved successfully to: ">> \o p
MsgExportNoFile(p) == <<"Export completed but file not found at: ">> \o p
MsgExportFailed == <<"Failed to export data: ", "<exc>">>

\* return _export_path, msg
ExpReturn(e, ok, msg) ==
    /\ exp' = [e EXCEPT !.first = e.path]
    /\ FileReturn(ok, msg)

ExportGridAsCsv ==
    /\ pc = "idle"
    /\ op' = "export_grid_as_csv"
    /\ impl' = "logon_pad"
    /\ arg' = ArgValue /\ UNCHANGED selected
    /\ \E o \in ExportPaths, i \in {None, "VA01"} :
            exp' = [NoExport EXCEPT !.output_path = o, !.identifier = i]
    /\ \E s \in {None, Session} :
            /\ session' = s
            /\ pc' = IF s = None THEN "ss_GetObject" ELSE "tool_session"
    /\ UNCHANGED <<auto, given, env, cssArgs, timeVars, histVars, lookup, todo,
                   text, parsed, apartVars, shot, probes, conns, before, result>>

\* What the steps of export_grid_as_csv leave alone.
expFrame == <<callVars, cssArgs, timeVars, wrote, stages, failed, probe, checked,
              arg, selected, lookup, text, parsed, apartVars, shot, probes, conns, before, session>>

\* 40-43
ExpNoSession ==
    /\ pc = "tool_session" /\ op = "export_grid_as_csv"
    /\ session = None
    /\ ExpReturn(exp, FALSE, MsgExpNoSession)
    /\ UNCHANGED <<expFrame, todo, calls, faulted>>

\* 46-61: the directory is made when it has to be, and the file name is
\* generated in it.
ExpMakeDirs ==
    /\ pc = "tool_session" /\ op = "export_grid_as_csv"
    /\ session # None
    /\ LET dir == ExportDirOf(exp.output_path) IN
       \/ /\ exp' = [exp EXCEPT !.path = Join(dir, ExportName(exp.identifier))]
          /\ pc' = "exp_find"
          /\ UNCHANGED <<result, log>>
       \/ /\ ~PathGiven(exp.output_path) \/ dir # Empty
          /\ ExpReturn(exp, FALSE, MsgExportFailed)
    /\ UNCHANGED <<expFrame, todo, calls, faulted>>

\* 64-68
ExpFind ==
    /\ pc = "exp_find"
    /\ \/ /\ pc' = "exp_subtype"
          /\ calls' = Append(calls, <<"FindById", arg>>)
          /\ UNCHANGED <<exp, result, log, faulted>>
       \/ /\ ExpReturn(exp, FALSE, MsgGridNotFound(arg))
          /\ UNCHANGED <<calls, faulted>>
       \/ /\ ExpReturn(exp, FALSE, MsgExportFailed)
          /\ faulted' = TRUE
          /\ UNCHANGED calls
    /\ UNCHANGED <<expFrame, todo>>

\* 71-74
ExpSubtype ==
    /\ pc = "exp_subtype"
    /\ \/ /\ pc' = "exp_export"
          /\ todo' = ExportSteps
          /\ UNCHANGED <<exp, result, log, faulted>>
       \/ /\ ExpReturn(exp, FALSE, MsgNotGridView(arg))
          /\ UNCHANGED <<todo, faulted>>
       \/ /\ ExpReturn(exp, FALSE, MsgExportFailed)
          /\ faulted' = TRUE
          /\ UNCHANGED todo
    /\ UNCHANGED <<expFrame, calls>>

\* 77-94: the next call of the export dialog; the third writes the file name.
ExpStep ==
    /\ pc = "exp_export"
    /\ todo # <<>>
    /\ calls' = Append(calls, <<Head(todo)>>)
    /\ \/ /\ todo' = Tail(todo)
          /\ exp' = IF Head(todo) = "FILE_NAME.text="
                    THEN [exp EXCEPT !.written = exp.path] ELSE exp
          /\ UNCHANGED <<pc, result, log, faulted>>
       \/ /\ ExpReturn(exp, FALSE, MsgExportStepFailed)
          /\ faulted' = TRUE
          /\ UNCHANGED todo
    /\ UNCHANGED expFrame

\* 97-104: os.path.exists(_export_path)
ExpVerify ==
    /\ pc = "exp_export"
    /\ todo = <<>>
    /\ \E e \in BOOLEAN :
        ExpReturn([exp EXCEPT !.exists = e], e,
                  IF e THEN MsgExportSaved(exp.path) ELSE MsgExportNoFile(exp.path))
    /\ UNCHANGED <<expFrame, todo, calls, faulted>>

(***************************************************************************)
(* launch_sap_logon (sap/logon_pad.py 86-133), with is_sap_logon_running   *)
(* (36-48) and find_sap_logon_path (51-83), neither of which raises.       *)
(*   first    what the check before the launch found                       *)
(*   path     whether the executable was found                             *)
(*   started  how often subprocess.Popen started the process               *)
(*   probed   how often is_sap_logon_running was asked after the launch    *)
(*   up       one of those probes found it running                         *)
(***************************************************************************)
MAX_RETRIES == 10
\* Largest max_retries a caller passes, the default apart.
MaxRetries == 2

\* The verification loop asks once more than max_retries allows.
ProbesLeftInclusive(l) == l.probed <= l.max_retries
\* for attempt in range(max_retries)
ProbesLeft(l) == l.probed < l.max_retries

launchFrame == <<callVars, cssArgs, timeVars, wrote, calls, stages, failed, probe, checked,
                 arg, selected, lookup, todo, text, parsed, grid, inv, gui, shot, exp,
                 conns, before, session>>

LaunchSapLogon ==
    /\ pc = "idle"
    /\ op' = "launch_sap_logon"
    /\ impl' = "logon_pad"
    /\ pc' = "lsl_running"
    /\ \E m \in (0..MaxRetries) \cup {MAX_RETRIES} :
            launch' = [NoLaunch EXCEPT !.max_retries = m]
    /\ UNCHANGED <<auto, given, env, cssArgs, timeVars, histVars, arg, selected, lookup,
                   todo, text, parsed, grid, inv, gui, shot, exp, probes, conns, before,
                   session, result>>

\* 98-99: if is_sap_logon_running(): return True, ...
LslRunning ==
    /\ pc = "lsl_running"
    /\ probes' = probes + 1
    /\ \/ /\ launch' = [launch EXCEPT !.first = "running"]
          /\ FileReturn(TRUE, <<"SAP Logon is already running">>)
          /\ UNCHANGED faulted
       \/ \E raised \in BOOLEAN :
            /\ launch' = [launch EXCEPT !.first = "absent"]
            /\ faulted' = (faulted \/ raised)
            /\ pc' = "lsl_find"
            /\ UNCHANGED <<result, log>>
    /\ UNCHANGED launchFrame

\* 102-108: find_sap_logon_path()
LslFind ==
    /\ pc = "lsl_find"
    /\ \/ /\ launch' = [launch EXCEPT !.path = "found"]
          /\ pc' = "lsl_popen"
          /\ UNCHANGED <<result, log>>
       \/ /\ launch' = [launch EXCEPT !.path = "missing"]
          /\ FileReturn(FALSE, <<"SAP Logon executable not found. Please install SAP GUI or set SAP_LOGON_PATH environment variable.">>)
    /\ UNCHANGED <<launchFrame, probes, faulted>>

\* 112-115: subprocess.Popen([sap_logon_path], shell=True); time.sleep(wait_time)
LslPopen ==
    /\ pc = "lsl_popen"
    /\ \/ /\ launch' = [launch EXCEPT !.started = launch.started + 1]
          /\ pc' = "lsl_probe"
          /\ UNCHANGED <<result, log, faulted>>
       \/ /\ FileReturn(FALSE, <<"Failed to launch SAP Logon: ", "<exc>">>)
          /\ faulted' = TRUE
          /\ UNCHANGED launch
    /\ UNCHANGED <<launchFrame, probes>>

\* 118-128: the verification loop, one iteration; time.sleep(POLLING_INTERVAL)
\* after a probe that does not find it.
LslProbe ==
    /\ pc = "lsl_probe"
    /\ IF ProbesLeft(launch)
       THEN /\ probes' = probes + 1
            /\ \/ /\ launch' = [launch EXCEPT !.probed = launch.probed + 1, !.up = TRUE]
                  /\ FileReturn(TRUE, <<"SAP Logon launched successfully from: ", "<path>">>)
                  /\ UNCHANGED faulted
               \/ \E raised \in BOOLEAN :
                    /\ launch' = [launch EXCEPT !.probed = launch.probed + 1]
                    /\ faulted' = (faulted \/ raised)
                    /\ UNCHANGED <<pc, result, log>>
       ELSE /\ FileReturn(FALSE, <<"SAP Logon was launched but failed to initialize within expected time">>)
            /\ UNCHANGED <<launch, probes, faulted>>
    /\ UNCHANGED launchFrame

Next ==
    \/ LoginToSap \/ LtsCall \/ LtsResult
    \/ CreateSapSession
    \/ SapSession \/ SsGetObject \/ SsGetScriptingEngine \/ SsConnections
    \/ SsNoAutoLogin \/ SsAutoLogin
    \/ IsSapLogonRunning
    \/ CaptureScreenshot \/ ShotNoSession \/ ShotWindow \/ ShotMakeDirs \/ ShotHardCopy
    \/ ExportGridAsCsv \/ ExpNoSession \/ ExpMakeDirs \/ ExpFind \/ ExpSubtype
    \/ ExpStep \/ ExpVerify
    \/ LaunchSapLogon \/ LslRunning \/ LslFind \/ LslPopen \/ LslProbe
    \/ CssGetObject \/ CssGetScriptingEngine \/ CssOpenConnection \/ CssWaitStart
    \/ CssPoll \/ CssSleepTick \/ GuiSessionAppears \/ CssAfterWait
    \/ CssWrite \/ CssSendEnter \/ CssProbe
    \/ ToolCall \/ ToolNoSession \/ ToolLookup \/ ToolStep \/ ToolDone
    \/ Return

Spec == Init /\ [][Next]_vars

\* A step of create_sap_session: an external call returns or raises, or the
\* clock advances during a sleep.
CssStep ==
    \/ CssGetObject \/ CssGetScriptingEngine \/ CssOpenConnection \/ CssWaitStart
    \/ CssPoll \/ CssSleepTick \/ CssAfterWait \/ CssWrite \/ CssSendEnter \/ CssProbe
\* create_sap_session called on its own, time after time.
NextLive == CreateSapSession \/ CssStep \/ GuiSessionAppears \/ Return
\* The calling thread runs on: a step of create_sap_session that can be taken
\* is taken.  Nothing is assumed of the GUI.
SpecLive == Init /\ [][NextLive]_vars /\ WF_vars(CssStep)
(***************************************************************************)
(* The selected-rows parser of get_selected_grid_rows (server.py 744-756), *)
(* on its own.  A string is the sequence of its characters.                *)
(***************************************************************************)
\* The characters a selection string is made of, and its greatest length.
RowChars == {"1", "2", "3", "5", ",", "-"}
MaxText == 5
RowTexts == UNION {[1..n -> RowChars] : n \in 0..MaxText}

\* str.split(sep): the parts between the separators; the string itself when
\* it holds none, so one empty part for "".
RECURSIVE Split(_, _)
Split(q, sep) ==
    IF \A i \in 1..Len(q) : q[i] # sep THEN <<q>>
    ELSE LET k == CHOOSE i \in 1..Len(q) : q[i] = sep /\ \A j \in 1..(i - 1) : q[j] # sep
         IN <<SubSeq(q, 1, k - 1)>> \o Split(SubSeq(q, k + 1, Len(q)), sep)

DigitValue ==
    ("0" :> 0) @@ ("1" :> 1) @@ ("2" :> 2) @@ ("3" :> 3) @@ ("4" :> 4) @@
    ("5" :> 5) @@ ("6" :> 6) @@ ("7" :> 7) @@ ("8" :> 8) @@ ("9" :> 9)
\* int(d) returns: d is digits only, and not empty; otherwise ValueError.
IntOk(d) == d # <<>> /\ \A i \in 1..Len(d) : d[i] \in DOMAIN DigitValue
RECURSIVE PyInt(_)
PyInt(d) == IF d = <<>> THEN 0
          ELSE 10 * PyInt(SubSeq(d, 1, Len(d) - 1)) + DigitValue[d[Len(d)]]

\* list(range(a, b))
PyRange(a, b) == [i \in 1..(IF b > a THEN b - a ELSE 0) |-> a + i - 1]
ExpandExclusive(a, b) == PyRange(a, b)
\* range(start, end + 1)
Expand(a, b) == PyRange(a, b + 1)

HasDash(part) == \E i \in 1..Len(part) : part[i] = "-"
\* The part goes through: start, end = map(int, part.split("-")), or int(part).
PartOk(part) ==
    IF HasDash(part)
    THEN LET ab == Split(part, "-") IN Len(ab) = 2 /\ IntOk(ab[1]) /\ IntOk(ab[2])
    ELSE IntOk(part)
PartRows(part) ==
    IF HasDash(part)
    THEN LET ab == Split(part, "-") IN Expand(PyInt(ab[1]), PyInt(ab[2]))
    ELSE <<PyInt(part)>>
RECURSIVE PartsRows(_)
PartsRows(parts) ==
    IF parts = <<>> THEN <<>> ELSE PartRows(Head(parts)) \o PartsRows(Tail(parts))

\* What get_selected_grid_rows makes of the string t: nothing selected (no
\* selected_indices in the result), the rows of the indices, or, when a part
\* raises, the error dictionary.
SelectedRowsOf(t) ==
    IF t = <<>>
    THEN [kind |-> "empty", count |-> 0, hasIndices |-> FALSE, rows |-> <<>>]
    ELSE LET parts == Split(t, ",") IN
         IF \A i \in 1..Len(parts) : PartOk(parts[i])
         THEN [kind |-> "rows", count |-> Len(PartsRows(parts)), hasIndices |-> TRUE,
               rows |-> PartsRows(parts)]
         ELSE [kind |-> "error", count |-> 0, hasIndices |-> FALSE, rows |-> <<>>]

ParseSelectedRows ==
    /\ parsed.kind = "pending"
    /\ parsed' = SelectedRowsOf(text)
    /\ UNCHANGED <<mainVars, text, apartVars, fileVars>>

(***************************************************************************)
(* The extraction of get_grid_data (server.py 640-664), on its own.  A     *)
(* grid is its RowCount and its ColumnOrder, whose length is its           *)
(* ColumnCount.                                                            *)
(***************************************************************************)
MaxRows == 2
ColumnIds == {"MATNR", "WERKS", "MENGE"}
\* Python's range(n), as the indices 1..n of a sequence.
PyIndices(n) == 1..(IF n > 0 THEN n ELSE 0)
\* The grids read: up to MaxRows rows, the columns in any order.
Grids ==
    {[NoGrid EXCEPT !.kind = "pending", !.row_count = r, !.column_order = o] :
        r \in 0..MaxRows,
        o \in {q \in UNION {[1..n -> ColumnIds] : n \in 0..Cardinality(ColumnIds)} :
                    \A i, j \in 1..Len(q) : i # j => q[i] # q[j]}}
\* 647-664: both comprehensions run over range(column_count - 1).
GridDataOf(g) ==
    LET column_count == Len(g.column_order)
        cols == PyIndices(column_count - 1)
        title(c) == <<"title of ", g.column_order[c]>>
        row_data(r) == [id \in {g.column_order[c] : c \in cols} |->
                            [Column |-> <<"title of ", id>>, Value |-> <<"cell", r - 1, id>>]]
    IN [g EXCEPT !.kind = "dict",
                 !.columns = [c \in cols |-> title(c)],
                 !.rows = [r \in PyIndices(g.row_count) |-> row_data(r)]]

GetGridData ==
    /\ grid.kind = "pending"
    /\ grid' = GridDataOf(grid)
    /\ UNCHANGED <<mainVars, text, parsed, launch, inv, gui, fileVars>>

\* Either function gets its input.
InitRows ==
    /\ Idle /\ before = "none"
    /\ parsed = NoParse /\ shot = NoShot /\ exp = NoExport
    /\ launch = NoLaunch /\ inv = NoInv /\ gui = NoGui
    /\ \/ text \in RowTexts /\ grid = NoGrid
       \/ text = <<>> /\ grid \in Grids
NextRows == ParseSelectedRows \/ GetGridData
SpecRows == InitRows /\ [][NextRows]_vars

(***************************************************************************)
(* Two invocations at once on one session.  The code takes no lock and     *)
(* keeps no queue, so each external call of either is a step of its own.   *)
(* The two are double_click_grid_cell (server.py 777-810) or the           *)
(* credential login of create_sap_session (logon_pad.py 213-225); the      *)
(* session is there and no call raises.                                    *)
(***************************************************************************)
\* The cells double_click_grid_cell is called with.
RaceCells == {<<0, 0>>, <<1, 1>>}
\* The external calls of an invocation, in the order of its statements.
RaceTodo(o, a) ==
    IF o = "double_click_grid_cell"
    THEN <<<<"CurrentCellRow=", a[1]>>, <<"CurrentCellColumn=", a[2]>>,
           <<"DoubleClick", a[1], a[2]>>>>
    ELSE [k \in 1..Len(CredentialWrites) |->
                <<"Text", CredentialWrites[k], a[CredentialWrites[k]]>>]
         \o <<<<"SendVKey", 0>>>>

\* Invocation i is called.
RaceCall(i) ==
    /\ inv[i].op = "none"
    /\ \/ \E a \in RaceCells :
            inv' = [inv EXCEPT ![i] = [op |-> "double_click_grid_cell", begun |-> FALSE,
                                        todo |-> RaceTodo("double_click_grid_cell", a)]]
       \/ \E a \in {ExplicitVal, EnvVal} :
            inv' = [inv EXCEPT ![i] = [op |-> "create_sap_session", begun |-> FALSE,
                                        todo |-> RaceTodo("create_sap_session", a)]]
    /\ UNCHANGED <<mainVars, text, parsed, grid, launch, gui, fileVars>>

\* What the call c of invocation i does to the screen.
GuiAfter(i, c) ==
    LET g == [gui EXCEPT !.acted = Append(gui.acted, <<i, c[1]>>)] IN
    CASE c[1] = "CurrentCellRow=" -> [g EXCEPT !.row = c[2]]
      [] c[1] = "CurrentCellColumn=" -> [g EXCEPT !.column = c[2]]
      [] c[1] = "DoubleClick" ->
            [g EXCEPT !.clicked = Append(gui.clicked,
                [by |-> i, cell |-> <<c[2], c[3]>>, current |-> <<gui.row, gui.column>>])]
      [] c[1] = "Text" -> [g EXCEPT !.fields[c[2]] = c[3]]
      [] c[1] = "SendVKey" ->
            [g EXCEPT !.entered = Append(gui.entered, [by |-> i, fields |-> gui.fields])]

\* A lock around the calls of an invocation: the other one waits.
RaceStepSerialized(i) ==
    /\ inv[i].todo # <<>>
    /\ \A j \in {1, 2} \ {i} : ~(inv[j].begun /\ inv[j].todo # <<>>)
    /\ gui' = GuiAfter(i, Head(inv[i].todo))
    /\ inv' = [inv EXCEPT ![i].todo = Tail(inv[i].todo), ![i].begun = TRUE]
    /\ UNCHANGED <<mainVars, text, parsed, grid, launch, fileVars>>

\* The next external call of invocation i.
RaceStep(i) ==
    /\ inv[i].todo # <<>>
    /\ gui' = GuiAfter(i, Head(inv[i].todo))
    /\ inv' = [inv EXCEPT ![i].todo = Tail(inv[i].todo), ![i].begun = TRUE]
    /\ UNCHANGED <<mainVars, text, parsed, grid, launch, fileVars>>

\* Both invocations have returned; the next two meet a fresh screen.
RaceReturn ==
    /\ \A i \in {1, 2} : inv[i].begun /\ inv[i].todo = <<>>
    /\ inv' = NoInv
    /\ gui' = NoGui
    /\ UNCHANGED <<mainVars, text, parsed, grid, launch, fileVars>>

NextRace == (\E i \in {1, 2} : RaceCall(i) \/ RaceStep(i)) \/ RaceReturn
SpecRace == Init /\ [][NextRace]_vars

(***************************************************************************)
(* Properties.                                                             *)
(***************************************************************************)
Range(q) == {q[i] : i \in 1..Len(q)}
IsPrefix(a, b) == Len(a) <= Len(b) /\ \A i \in 1..Len(a) : a[i] = b[i]
Events(kind) == SelectSeq(calls, LAMBDA ev : ev[1] = kind)
Opened == Events("OpenConnection") # <<>>
CredSet == Range(CredFields)

\* A field is absent when it is None, unset, omitted or empty.
Absent(x) == x \in {None, Omitted, Empty}
\* login_to_sap ran its validation and still holds its arguments.
LoginValidated == op = "login_to_sap" /\ pc \in {"lts_call", "done"} /\ given # Forgotten

\* C1, as claimed: login_to_sap, and sap_session with auto_login=True, with a
\* required field absent from both the arguments and the environment, fail with
\* a message naming every missing field and no present one, and open no
\* connection.
C1_AsClaimed ==
    /\ LoginValidated /\ (\E f \in CredSet : Absent(given[f]) /\ Absent(env[f]))
        => /\ pc = "done"
           /\ ~Opened
           /\ Range(Tail(result.msg)) =
                {LoginLabel[f] : f \in {h \in CredSet : Absent(given[h]) /\ Absent(env[h])}}
    /\ op = "sap_session" /\ auto /\ pc = "done" /\ (\E f \in CredSet : Absent(env[f]))
        => /\ result.kind = "none"
           /\ ~Opened
           /\ log # <<>>
           /\ Range(Tail(log[Len(log)])) = {EnvLabel[f] : f \in {h \in CredSet : Absent(env[h])}}

\* The value the code settles on for a field of login_to_sap: the argument
\* unless it is None (or omitted), else the environment's.
Settled(f) == IF given[f] \in {None, Omitted} THEN env[f] ELSE given[f]

\* C1, amended: login_to_sap, when the value it settles on for a required field
\* (the argument unless it is None, else the environment's) is unset or empty,
\* returns a message naming exactly those fields and opens no connection;
\* sap_session with auto_login=True does the same on the environment's values,
\* logging the message and returning None, once it has found the GUI process
\* and its scripting engine and no existing session.
C1_MissingNamed ==
    /\ LoginValidated /\ (\E f \in CredSet : Absent(Settled(f)))
        => /\ pc = "done"
           /\ ~Opened
           /\ result.kind = "str"
           /\ result.msg[1] = "Login failed: Missing required parameters: "
           /\ Range(Tail(result.msg)) =
                {LoginLabel[f] : f \in {h \in CredSet : Absent(Settled(h))}}
    /\ op = "sap_session" /\ auto /\ checked /\ (\E f \in CredSet : Absent(env[f]))
        => /\ pc = "done"
           /\ result.kind = "none"
           /\ ~Opened
           /\ log # <<>>
           /\ log[Len(log)][1] = "Auto-login failed: Missing required environment variables: "
           /\ Range(Tail(log[Len(log)])) = {EnvLabel[f] : f \in {h \in CredSet : Absent(env[h])}}

\* login_to_sap with client and password missing everywhere: both are named.
C1_Witness ==
    /\ op = "login_to_sap" /\ pc = "done"
    /\ given.system = "PRD" /\ env.user = "bob"
    /\ given.client = Omitted /\ env.client = None
    /\ given.password = Omitted /\ env.password = Empty
    /\ result.msg = <<"Login failed: Missing required parameters: ",
                      "client (SAP_CLIENT)", "password (SAP_PASSWORD)">>

\* create_sap_session has run (alone, or under login_to_sap or sap_session).
CssRan == stages # <<>>
CssEnded == CssRan /\ pc \in {"lts_result", "done"}

\* C2: create_sap_session returns the session if and only if the password-field
\* probe made after Enter raised; otherwise, also when the probe returned,
\* it returns None.
C2_SuccessIffProbeRaises ==
    CssEnded => /\ (session = Session <=> probe = "raised")
                /\ (session = None <=> probe \in {"none", "returned"})
                /\ (probe # "none" =>
                        calls[Len(calls)] = <<"FindById", "wnd[0]/usr/pwdRSYST-BCODE">>)

C2_Witness ==
    /\ op = "create_sap_session" /\ pc = "done"
    /\ probe = "raised" /\ result.kind = "session"

C2_WitnessFailed ==
    /\ op = "create_sap_session" /\ pc = "done"
    /\ probe = "returned" /\ result.kind = "none"

InWaitLoop == pc \in {"css_poll", "css_sleep"}

C3_WitnessTimeout ==
    /\ pc = "css_after_wait" /\ ~sessUp /\ maxw = 3
    /\ tEnd = start_time + 4

\* A tool of the dispatch layer, login_to_sap included, has returned.
ToolEnded == pc = "done" /\ op \in ToolNames \cup {"login_to_sap"}

\* C4, as claimed: no tool propagates an exception, and whenever an external
\* call raised during the tool, the tool returns an error string or dictionary.
C4_AsClaimed ==
    ToolEnded => /\ result.kind # "exception"
                 /\ faulted => result.kind \in {"str", "dict"} /\ result.error

\* C4, amended: no tool propagates an exception.  A session tool returns an
\* error string or dictionary of its own kind whenever an external call raised:
\* the handler's message with the exception text, or the no-session error when
\* the fault was in acquiring the session.  login_to_sap returns a string in
\* every case; it is an error string unless the call that raised was the
\* password-field probe (the login is judged successful) or the read of the
\* new session's information (a success message without the information).
C4_NeverPropagates ==
    /\ pc = "done" => result.kind # "exception"
    /\ ToolEnded /\ op \in ToolNames /\ faulted =>
        /\ result.error
        /\ result.kind = ToolTable[op].returns
        /\ result.kind \in {"str", "dict"}
        /\ IF session = None THEN result.msg = MsgToolNoSession
           ELSE result.msg = MsgToolError(ToolTable[op], arg)
        /\ lookup = "raised" => calls = <<>>
    /\ ToolEnded /\ op = "login_to_sap" /\ faulted =>
        /\ result.kind = "str"
        /\ ~result.error => probe = "raised"
        /\ ~result.error /\ result.msg # MsgLoginInfo =>
                result.msg = MsgLoginNoInfo(creds.user)

\* set_text finds the element and the write of its Text raises.
C4_Witness ==
    /\ pc = "done" /\ op = "set_text" /\ faulted /\ lookup = "found"
    /\ calls = <<<<"Text=">>>>
    /\ result = Failure("str", <<"Failed to set text for element ID ",
                                 "wnd[0]/usr/ctxtFIELD", "<exc>">>)

\* A tool whose parameter is an element identifier.
TakesElementId(t) == t \in ToolNames /\ ToolTable[t].param = "element_id"

\* C5: every tool that takes an element identifier, when FindById raises,
\* returns an error value that contains the identifier.
C5_ErrorNamesElement ==
    pc = "done" /\ TakesElementId(op) /\ lookup = "raised" /\ arg = ArgValue =>
        result.error /\ arg \in Range(result.msg)

TextEvent(f) == <<"Text", FieldId[f], creds[f]>>
Enter == <<"SendVKey", "wnd[0]">>
\* The writes and key presses of the login, in order.
LoginActs == SelectSeq(calls, LAMBDA ev : ev[1] \in {"Text", "SendVKey"})

\* C6: on the SSO path only the client field is written, and only when a client
\* is given; then Enter is sent; user, password and language are never written.
C6_SsoClientOnly ==
    CssRan /\ sso =>
        /\ IsPrefix(LoginActs,
                    IF Truthy(creds.client) THEN <<TextEvent("client"), Enter>>
                    ELSE <<Enter>>)
        /\ \A f \in {"user", "password", "language"}, i \in 1..Len(calls) :
                calls[i][1] = "Text" => calls[i][2] # FieldId[f]

C6_Witness ==
    /\ pc = "done" /\ sso /\ probe = "raised"
    /\ creds.user = "alice" /\ creds.password = "secret" /\ creds.language = "DE"
    /\ LoginActs = <<<<"Text", "wnd[0]/usr/txtRSYST-MANDT", "100">>, Enter>>

\* C7: on the credential path the client, user, password and language fields
\* are written in that order, each once, and Enter is sent only after the four.
C7_CredentialOrder ==
    CssRan /\ ~sso =>
        IsPrefix(LoginActs,
                 <<TextEvent("client"), TextEvent("user"), TextEvent("password"),
                   TextEvent("language"), Enter>>)

C7_Witness ==
    /\ pc = "done" /\ ~sso /\ op = "login_to_sap"
    /\ LoginActs = <<<<"Text", "wnd[0]/usr/txtRSYST-MANDT", "100">>,
                     <<"Text", "wnd[0]/usr/txtRSYST-BNAME", "bob">>,
                     <<"Text", "wnd[0]/usr/pwdRSYST-BCODE", "secret">>,
                     <<"Text", "wnd[0]/usr/txtRSYST-LANGU", "EN">>,
                     <<"SendVKey", "wnd[0]">>>>

Chain == <<"locate", "engine", "open", "wait", "login", "probe">>

\* C8: the stages run in the order locate, engine, open, wait, login, probe; a
\* stage that fails ends the call with a failure result and no later stage is
\* attempted: no connection is opened when the process is absent, and no field
\* is written when no session appeared.
C8_ShortCircuit ==
    /\ IsPrefix(stages, Chain)
    /\ failed # "none" =>
        /\ CssEnded
        /\ stages[Len(stages)] = failed
        /\ session = None
        /\ pc = "done" => IF op = "login_to_sap"
                          THEN result.msg[1] = "Failed to create SAP session for system "
                          ELSE result.kind = "none"
        /\ failed \in {"locate", "engine"} => calls = <<>>
        /\ failed \in {"open", "wait"} => LoginActs = <<>> /\ probe = "none"
        /\ failed = "login" => probe = "none"

C8_Witness ==
    /\ pc = "done" /\ op = "login_to_sap" /\ failed = "wait"
    /\ stages = <<"locate", "engine", "open", "wait">>
    /\ log[1] = MsgNoSession

\* C9, as claimed: the error login_to_sap returns for a failed stage is that
\* stage's own message.
C9_AsClaimed ==
    op = "login_to_sap" /\ pc = "done" /\ failed # "none" => result.msg = log[1]

\* The message create_sap_session logs for a failure at each stage.
StageMessages(st) ==
    CASE st = "locate" -> {MsgNotRunning, MsgCreateFailed}
      [] st = "engine" -> {MsgNoEngine, MsgCreateFailed}
      [] st = "open" -> {MsgNoConnection(creds.system), MsgCreateFailed}
      [] st = "wait" -> {MsgNoSession, MsgCreateFailed}
      [] st = "login" -> {MsgLoginError}
      [] st = "probe" -> {MsgStillOnLogin}

\* C9, amended: a failed stage logs its own message, and login_to_sap returns
\* the same message for a failure at any stage: "Failed to create SAP session
\* for system <system>. Check credentials and SAP GUI status."
C9_GenericFailure ==
    op = "login_to_sap" /\ pc = "done" /\ failed # "none" =>
        /\ log[1] \in StageMessages(failed)
        /\ result = Failure("str", <<"Failed to create SAP session for system ",
                                      creds.system,
                                      ". Check credentials and SAP GUI status.">>)

C9_Witness ==
    /\ op = "login_to_sap" /\ pc = "done" /\ failed = "probe"
    /\ log[1] = <<"Login failed - still on login screen.">>
    /\ result.msg = <<"Failed to create SAP session for system ", "DEV",
                      ". Check credentials and SAP GUI status.">>

\* C10: login_to_sap uses, for each of system, client, user, password and
\* language, the argument when the caller supplies one and the environment's
\* value for every field the caller does not supply.
C10_ArgumentThenEnvironment ==
    op = "login_to_sap" /\ pc = "lts_call" =>
        \A f \in Fields :
            creds[f] = IF given[f] \in {Omitted, None}
                       THEN (IF f = "language" /\ env[f] = None THEN "EN" ELSE env[f])
                       ELSE given[f]

\* A login was turned down for missing fields: the orchestrator's message.
RejectedAsMissing ==
    \E i \in 1..Len(log) :
        log[i][1] \in {"Login failed: Missing required parameters: ",
                       "Auto-login failed: Missing required environment variables: "}

\* C11: the required fields depend on the authentication mode.  With password
\* authentication no login goes as far as opening a connection unless system,
\* client, user and password are all present; with SSO a login that has a
\* system id is never turned down for missing fields.
C11_RequiredByMode ==
    /\ Opened /\ ~sso => \A f \in CredSet : Truthy(creds[f])
    /\ CssRan /\ sso /\ Truthy(creds.system) => ~RejectedAsMissing

\* The text is well formed: parts separated by commas, each a number or two
\* numbers joined by one dash.
IsNumber(q) == q # <<>> /\ \A i \in 1..Len(q) : q[i] \notin {",", "-"}
Dashes(q) == Cardinality({i \in 1..Len(q) : q[i] = "-"})
WellFormed(t) ==
    /\ t # <<>>
    /\ t[1] \notin {",", "-"} /\ t[Len(t)] \notin {",", "-"}
    /\ \A i \in 1..(Len(t) - 1) : t[i] \in {",", "-"} => t[i + 1] \notin {",", "-"}
    /\ \A i, j \in 1..Len(t) :
          i < j /\ t[i] = "-" /\ t[j] = "-" => \E k \in (i + 1)..(j - 1) : t[k] = ","

\* C12: get_selected_grid_rows turns a comma-separated selection string into
\* the row indices in order, a part a-b giving a, a+1, ..., b and any other
\* part its integer: "1,2,3" gives 1,2,3; "1-5" gives 1,2,3,4,5; "1,3-5" gives
\* 1,3,4,5; the empty string gives no rows.
C12_RangeParser ==
    parsed.kind # "pending" =>
        /\ text = <<"1", ",", "2", ",", "3">> => parsed.rows = <<1, 2, 3>>
        /\ text = <<"1", "-", "5">> => parsed.rows = <<1, 2, 3, 4, 5>>
        /\ text = <<"1", ",", "3", "-", "5">> => parsed.rows = <<1, 3, 4, 5>>
        /\ text = <<>> => parsed.rows = <<>> /\ parsed.count = 0 /\ parsed.kind = "empty"
        /\ WellFormed(text) <=> parsed.kind = "rows"
        /\ parsed.kind = "rows" =>
            /\ parsed.count = Len(parsed.rows)
            /\ IsNumber(text) => parsed.rows = <<PyInt(text)>>
            /\ Dashes(text) = 0 => Len(parsed.rows) = Len(Split(text, ","))
            /\ \A i \in 2..(Len(text) - 1) :
                  text[i] = "-" /\ IsNumber(SubSeq(text, 1, i - 1))
                                /\ IsNumber(SubSeq(text, i + 1, Len(text)))
                  => LET a == PyInt(SubSeq(text, 1, i - 1))
                         b == PyInt(SubSeq(text, i + 1, Len(text)))
                     IN /\ Len(parsed.rows) = (IF b >= a THEN b - a + 1 ELSE 0)
                        /\ \A k \in 1..Len(parsed.rows) : parsed.rows[k] = a + k - 1

C12_Witness ==
    /\ text = <<"1", ",", "3", "-", "5">>
    /\ parsed = [kind |-> "rows", count |-> 4, hasIndices |-> TRUE, rows |-> <<1, 3, 4, 5>>]

\* C13: a tool called with an empty required string parameter returns its
\* parameter error at once: it acquires no session, looks nothing up and makes
\* no external call.
C13_ValidatesFirst ==
    op \in ToolNames /\ ToolTable[op].param # "none" /\ arg = Empty =>
        /\ pc = "done"
        /\ result = Failure(ToolTable[op].returns, MsgParamError(ToolTable[op]))
        /\ lookup = "none" /\ calls = <<>> /\ session = None

\* C14: a tool other than login_to_sap acquires its session with auto-login
\* off.  It never validates credentials, opens a connection, writes a login
\* field or sends Enter, whatever the environment holds, and when it finds no
\* session it returns its no-session error.
C14_NoAutoLogin ==
    op \in ToolNames =>
        /\ ~auto /\ ~checked
        /\ stages = <<>> /\ ~Opened /\ LoginActs = <<>>
        /\ pc = "done" /\ session = None
                /\ ~(ToolTable[op].validates /\ arg = Empty)
            => result = Failure(ToolTable[op].returns, MsgToolNoSession)

\* start_transaction with every credential in the environment and no session.
C14_Witness ==
    /\ op = "start_transaction" /\ pc = "done" /\ env = EnvVal /\ arg = ArgValue
    /\ log = <<MsgSsNoSession, MsgToolNoSession>>
    /\ result = Failure("str", MsgToolNoSession)

\* C15: nothing is kept across invocations.  Between invocations the module is
\* in one and the same state however the earlier invocations ended, so an
\* invocation's result is decided by its arguments, the environment and the
\* external calls made during it; and the session a tool works on is one it
\* asked the external process for in this very invocation.
C15_NothingKept ==
    /\ pc = "idle" => Idle
    /\ pc = "idle" => ExtIdle
    /\ op \in ToolNames /\ (lookup # "none" \/ pc \in {"tool_session", "tool_body"})
        => probes = 1
    /\ op \in ToolNames /\ lookup # "none" => session = Session

\* get_text succeeds right after an invocation that failed.
C15_Witness ==
    /\ before = "failed" /\ op = "get_text" /\ pc = "done"
    /\ probes = 1 /\ lookup = "found" /\ ~result.error

\* The invocation acquires a session through sap_session.
AcquiresSession == op \in {"sap_session"} \cup ToolNames
\* sap_session's probe for the GUI process, or a later step of it, failed.
ProbeFailed == log # <<>> /\ log[1] \in {MsgSsNotRunning, MsgSsError}

\* C16, as claimed: session acquisition probes for the running GUI process
\* exactly once per call.
C16_AsClaimed ==
    AcquiresSession =>
        /\ probes <= 1
        /\ pc \in {"done", "tool_session", "tool_body"} => probes = 1

\* C16, amended: sap_session makes one probe and never repeats a failed one:
\* when the probe fails or yields nothing it returns None at once, with no
\* further probe, no wait and no connection attempt.  A second probe is made
\* only by the create_sap_session that sap_session(auto_login=True) calls
\* after its own probe succeeded and no session was found.
C16_SingleProbe ==
    /\ AcquiresSession =>
        /\ probes <= (IF CssRan THEN 2 ELSE 1)
        /\ probes = 2 => op = "sap_session" /\ auto /\ checked /\ ~ProbeFailed
        /\ op \in ToolNames => probes <= 1
    /\ AcquiresSession /\ ProbeFailed =>
        /\ probes = 1
        /\ session = None
        /\ stages = <<>> /\ ~Opened /\ calls = <<>>
        /\ now = 0 /\ tEnd = -1
        /\ pc \in {"done", "tool_session"}
        /\ op = "sap_session" => pc = "done" /\ result = Failure("none", NoMsg)
    /\ op = "is_sap_logon_running" => probes = 1 /\ pc = "done"

C16_Witness ==
    /\ op = "sap_session" /\ auto /\ env = EnvVal /\ pc = "done"
    /\ log = <<MsgSsNotRunning>> /\ probes = 1
    /\ result = Failure("none", NoMsg)

\* What sap_session returns when the GUI process is not running.
NotRunningResult == Failure("none", NoMsg)
\* sap_session, called directly, has returned without a session.
SsFailed == op = "sap_session" /\ pc = "done" /\ session = None

\* C17, as claimed: what sap_session returns when the GUI process is not
\* running differs from what it returns in its other failure cases.
C17_AsClaimed ==
    SsFailed /\ log # <<>> /\ log[1] # MsgSsNotRunning => result # NotRunningResult

\* C17, amended: sap_session returns the session handle or None.  None is all
\* it returns in every failure case, the GUI process not running included; the
\* cause is told by the logged message alone, and a tool answers each of them
\* with its one no-session error.
C17_FailuresAlike ==
    /\ op = "sap_session" /\ pc = "done" =>
        /\ session = Session <=> result = Returned("session", NoMsg)
        /\ session = None <=> result = NotRunningResult
        /\ session = None => log # <<>>
    /\ op \in ToolNames /\ pc = "done" /\ session = None
            /\ ~(ToolTable[op].validates /\ arg = Empty)
        => /\ result = Failure(ToolTable[op].returns, MsgToolNoSession)
           /\ log[1] \in {MsgSsNotRunning, MsgNoEngine, MsgSsNoSession, MsgSsError}

\* The process runs but has no session: the same None as for "not running".
C17_Witness ==
    /\ op = "sap_session" /\ ~auto /\ pc = "done"
    /\ log = <<MsgSsNoSession>>
    /\ result = NotRunningResult

\* capture_screenshot has returned.
ShotEnded == op = "capture_screenshot" /\ pc = "done"

\* C18: capture_screenshot returns True with a message holding the output path
\* exactly when a session was available, the target window (the one named by
\* window_id, else the active one) resolved, HardCopy was made on it with the
\* output path and the PNG format, and the file was found at that path
\* afterwards.  The path is the output_path supplied; when none is supplied it
\* is a generated one under a "screenshots" directory.
C18_ScreenshotSuccess ==
    ShotEnded =>
        /\ result.kind = "tuple"
        /\ ~result.error <=>
                /\ session = Session
                /\ shot.window = (IF Truthy(shot.window_id) THEN "byId" ELSE "active")
                /\ shot.hardcopy = "returned" /\ shot.format = 3
                /\ shot.exists
        /\ ~result.error => result.msg = <<"Screenshot saved successfully to: ">> \o shot.path
        /\ shot.hardcopy # "none" =>
                /\ shot.window # "none"
                /\ calls[Len(calls)] = <<"HardCopy">> \o shot.path
                /\ PathGiven(shot.output_path) => shot.path = shot.output_path
                /\ ~PathGiven(shot.output_path) =>
                        /\ Dirname(shot.path) = "<cwd>/screenshots"
                        /\ shot.path # shot.output_path

\* A supplied path and window, and the file is there.
C18_Witness ==
    /\ ShotEnded /\ shot.window_id = "wnd[0]"
    /\ shot.output_path = <<"out", "shot.png">>
    /\ calls = <<<<"FindById", "wnd[0]">>, <<"HardCopy", "out", "shot.png">>>>
    /\ result = Returned("tuple", <<"Screenshot saved successfully to: ", "out", "shot.png">>)

\* export_grid_as_csv has returned.
ExpEnded == op = "export_grid_as_csv" /\ pc = "done"

\* C19: the first component export_grid_as_csv returns is the file path on
\* success and the empty string on every failure.
C19_EmptyOnFailure ==
    ExpEnded =>
        IF result.error THEN exp.first = EmptyPath
        ELSE exp.first = exp.path /\ PathGiven(exp.path) /\ exp.exists

\* C20: with output_path supplied, the file name written into the export dialog
\* and the path returned are output_path itself; a generated path is used only
\* when no output_path is supplied.
C20_SuppliedPathUsed ==
    op = "export_grid_as_csv" =>
        /\ exp.written # NoPath =>
                exp.written = (IF PathGiven(exp.output_path) THEN exp.output_path
                               ELSE Join(ExportsDir, ExportName(exp.identifier)))
        /\ pc = "done" /\ ~result.error /\ PathGiven(exp.output_path) =>
                exp.first = exp.output_path

\* C21: get_grid_data extracts all data of the grid: 'columns' has
\* column_count titles, 'rows' has row_count entries, and each entry holds a
\* value for every one of the column_count columns.
C21_AllData ==
    grid.kind = "dict" =>
        /\ Len(grid.columns) = Len(grid.column_order)
        /\ Len(grid.rows) = grid.row_count
        /\ \A r \in 1..Len(grid.rows) :
                DOMAIN grid.rows[r] = {grid.column_order[c] : c \in 1..Len(grid.column_order)}

\* The radio button is selected once its Select() has been called.
RadioSelected == <<"Select">> \in Range(calls)

\* C22: after a successful set_radio_button the radio button's selected state
\* is the value of the 'selected' argument: selected with True, not selected
\* with False.
C22_StateAsAsked ==
    op = "set_radio_button" /\ pc = "done" /\ ~result.error =>
        (RadioSelected <=> selected = "True")

\* sap_session found a session on the first connection.
FirstHasSession == conns.read /\ Len(conns.counts) > 0 /\ conns.counts[1] > 0
\* Some connection has a session.
SomeHasSession == conns.read /\ \E i \in 1..Len(conns.counts) : conns.counts[i] > 0
\* The invocation read the credentials of the environment or started a login.
LoginBegun == checked \/ stages # <<>> \/ Opened \/ wrote > 0 \/ probe # "none"

\* C23 as stated: whenever a session exists, on whichever connection,
\* sap_session returns it and drives no login.
C23_AsClaimed ==
    SomeHasSession => session = Session /\ ~LoginBegun

\* C23: whenever the first connection has a session, sap_session returns it,
\* with auto_login on or off, and opens no connection, reads no credentials
\* and drives no login; a login is begun only with auto_login on and no
\* session found there.
C23_ExistingSessionReturned ==
    /\ FirstHasSession => session = Session /\ ~LoginBegun /\ creds = NoRec
    /\ op # "login_to_sap" /\ op # "create_sap_session" /\ LoginBegun =>
            auto /\ conns.read /\ conns.picked = <<>>

\* sap_session(auto_login=True) has returned the session it found.
C23_Witness ==
    /\ op = "sap_session" /\ pc = "done" /\ auto
    /\ FirstHasSession /\ session = Session /\ ~result.error

\* C30: with auto_login off, sap_session returns a session exactly when the
\* first connection exists and has a session, and what it returns is that
\* connection's first session; a session of another connection is never
\* returned.
C30_FirstConnectionOnly ==
    AcquiresSession /\ ~auto =>
        /\ session = Session <=> FirstHasSession
        /\ session = Session => conns.picked = <<1, 1>>
        /\ conns.read /\ ~FirstHasSession => conns.picked = <<>>

\* sap_session() has returned None although the second connection has a session.
C30_Witness ==
    /\ op = "sap_session" /\ pc = "done" /\ ~auto
    /\ conns.read /\ conns.counts = <<0, 1>> /\ session = None

\* How often the invocation made the calls of kind k.
Count(k) == Len(Events(k))
\* The password-field probes among the calls.
ProbeEvents == SelectSeq(calls, LAMBDA ev : ev = <<"FindById", FieldId.password>>)
\* A create_sap_session is running inside the invocation.
InCss == pc \in {"css_GetObject", "css_GetScriptingEngine", "css_OpenConnection",
                 "css_wait_start", "css_poll", "css_sleep", "css_after_wait",
                 "css_login", "css_probe"}

\* C24: within one invocation at most one login sequence is driven:
\* OpenConnection is called at most once, Enter is sent at most once, the
\* password-field probe is made at most once, no stage is entered twice, and
\* once a stage has failed the sequence is over.
C24_OneLoginSequence ==
    /\ Count("OpenConnection") <= 1
    /\ Count("SendVKey") <= 1
    /\ Len(ProbeEvents) <= 1
    /\ \A i, j \in 1..Len(stages) : i # j => stages[i] # stages[j]
    /\ failed # "none" => ~InCss

\* login_to_sap has driven the whole sequence once, and the login failed.
C24_Witness ==
    /\ op = "login_to_sap" /\ pc = "done" /\ failed = "probe"
    /\ Count("OpenConnection") = 1 /\ Count("SendVKey") = 1 /\ Len(ProbeEvents) = 1

\* The element-acting tools.
ElementActing == {"set_text", "press_button", "set_checkbox", "set_combobox", "set_focus"}
\* How often the running tool's write or action on the element was invoked.
Acted == Len(SelectSeq(calls, LAMBDA ev : ev = <<ToolTable[op].acts[1]>>))

\* C25: an element-acting tool invokes its write or action at most once per
\* call, and not at all when the identifier is empty, no session exists, or
\* the lookup returns nothing or raises; it confirms success only if the
\* action was invoked and no call raised.
C25_ActsAtMostOnce ==
    op \in ElementActing =>
        /\ Acted <= 1
        /\ arg = Empty \/ session = None \/ lookup \in {"falsy", "raised"} => Acted = 0
        /\ pc = "done" /\ ~result.error => Acted = 1 /\ ~faulted /\ lookup = "found"

\* set_text has written the text and confirmed it.
C25_Witness ==
    /\ op = "set_text" /\ pc = "done" /\ ~result.error
    /\ calls = <<<<"Text=">>>>

\* The fields the chosen path writes.
PathWrites == LoginWrites(sso, creds)

\* C29: in create_sap_session Enter is sent only after every field write of
\* the chosen path has completed; if a login-field lookup or write raises,
\* Enter is never sent, the password-field probe is not made and the result
\* is None.
C29_EnterAfterAllWrites ==
    /\ Count("SendVKey") > 0 => wrote = Len(PathWrites)
    /\ failed = "login" /\ wrote < Len(PathWrites) =>
            /\ Count("SendVKey") = 0
            /\ probe = "none" /\ Len(ProbeEvents) = 0
            /\ session = None
            /\ op = "create_sap_session" => result = Handle(None)

\* The third field write of create_sap_session raised.
C29_Witness ==
    /\ op = "create_sap_session" /\ pc = "done"
    /\ failed = "login" /\ wrote = 2 /\ Len(PathWrites) = 4
    /\ Count("Text") = 3 /\ result = Handle(None)

\* C27: every invocation of create_sap_session runs to completion: as long as
\* its external calls return and the clock advances it comes to its return,
\* whatever the GUI does, also when no session ever appears.
C27_RunsToCompletion == InCss ~> ~InCss

\* The connection-wait loop has ended by its timeout, no session having appeared.
C27_Witness ==
    /\ op = "create_sap_session" /\ pc = "done"
    /\ failed = "wait" /\ ~sessUp /\ tEnd >= maxw /\ maxw > 0 /\ result = Handle(None)

\* launch_sap_logon has returned.
LaunchEnded == op = "launch_sap_logon" /\ pc = "done"

\* C28: launch_sap_logon starts the process only when SAP Logon is not
\* running and the executable is found, and at most once; when it is running
\* it returns success, and when the executable is missing failure, without a
\* start; after a start it probes at most max_retries times, returns success
\* at the first probe that finds it running and failure if none does.
C28_LaunchOnlyIfAbsent ==
    op = "launch_sap_logon" =>
        /\ launch.started <= 1
        /\ launch.started = 1 => launch.first = "absent" /\ launch.path = "found"
        /\ launch.first = "running" =>
                launch.started = 0 /\ launch.probed = 0 /\ pc = "done" /\ ~result.error
        /\ launch.path = "missing" => launch.started = 0 /\ pc = "done" /\ result.error
        /\ launch.probed <= launch.max_retries
        /\ launch.probed > 0 => launch.started = 1
        /\ launch.up => pc = "done" /\ ~result.error
        /\ LaunchEnded /\ launch.started = 1 =>
                IF launch.up THEN ~result.error
                ELSE result.error /\ launch.probed = launch.max_retries
        /\ LaunchEnded /\ launch.first = "absent" /\ launch.path = "found" =>
                launch.started = 1 \/ (faulted /\ result.error)

\* The process was started and the second probe found it running.
C28_Witness ==
    /\ LaunchEnded /\ launch.started = 1 /\ launch.probed = 2 /\ launch.up
    /\ ~result.error

====
